---- MODULE Spec2Model ----
(***************************************************************************)
(* Textile bill scanning: OCR scan orchestration (OCRModule), field        *)
(* extraction (DataExtractionModule), multi-pass merge and the confidence  *)
(* aggregator (ConfidenceModule) of src/unnamed/part_002.                  *)
(*                                                                         *)
(* A JavaScript string is a sequence of characters; a character is a       *)
(* one-element TLA+ string.  The rupee sign is the character "Rs".         *)
(***************************************************************************)
EXTENDS Integers, Sequences, FiniteSets, TLC

\* ------------------------------------------------------------------------
\* Characters and the String.prototype helpers the extraction code uses
\* ------------------------------------------------------------------------
UpperSeq == <<"A","B","C","D","E","F","G","H","I","J","K","L","M",
              "N","O","P","Q","R","S","T","U","V","W","X","Y","Z">>

LowerSeq == <<"a","b","c","d","e","f","g","h","i","j","k","l","m",
              "n","o","p","q","r","s","t","u","v","w","x","y","z">>

DigitSeq == <<"0","1","2","3","4","5","6","7","8","9">>

Range(s) == {s[i] : i \in DOMAIN s}

Upper == Range(UpperSeq)

Lowers == Range(LowerSeq)

Digit == Range(DigitSeq)

Letter == Upper \cup Lowers

\* \s of the regular expressions and of trim()
WS == {" ", "\n", "\t"}

Rupee == "Rs"

\* String.prototype.toLowerCase, one character
LowerChar(c) ==
  IF c \in Upper THEN LowerSeq[CHOOSE i \in 1..26 : UpperSeq[i] = c] ELSE c

UpperChar(c) ==
  IF c \in Lowers THEN UpperSeq[CHOOSE i \in 1..26 : LowerSeq[i] = c] ELSE c

toLowerCase(s) == [i \in 1..Len(s) |-> LowerChar(s[i])]

\* value of a decimal digit
DigitVal(c) == (CHOOSE i \in 1..10 : DigitSeq[i] = c) - 1

\* String.prototype.trim
RECURSIVE TrimLeft(_)
TrimLeft(s) ==
  IF s # <<>> /\ Head(s) \in WS THEN TrimLeft(Tail(s)) ELSE s

RECURSIVE TrimRight(_)
TrimRight(s) ==
  IF s # <<>> /\ s[Len(s)] \in WS THEN TrimRight(SubSeq(s, 1, Len(s) - 1)) ELSE s

trim(s) == TrimRight(TrimLeft(s))

\* String.prototype.includes: sub occurs in s as a contiguous substring
includes(s, sub) ==
  \E i \in 1..(Len(s) + 1) :
    /\ i + Len(sub) - 1 <= Len(s)
    /\ SubSeq(s, i, i + Len(sub) - 1) = sub

\* replace left out: s as it is
StripNothing(s, set) == s

\* s.replace(/[...]/g, ''): s without the characters of set
RECURSIVE Strip(_, _)
Strip(s, set) ==
  IF s = <<>> THEN <<>>
  ELSE IF Head(s) \in set THEN Strip(Tail(s), set)
       ELSE <<Head(s)>> \o Strip(Tail(s), set)

\* padStart left out: the digits as they were matched
padStartNone(s) == s

\* String.prototype.padStart(2, '0')
padStart2(s) == IF Len(s) < 2 THEN <<"0">> \o s ELSE s

\* s.split('\n')[0]
RECURSIVE FirstLine(_)
FirstLine(s) ==
  IF s = <<>> \/ Head(s) = "\n" THEN <<>>
  ELSE <<Head(s)>> \o FirstLine(Tail(s))

\* ------------------------------------------------------------------------
\* Regular expressions (String.prototype.match): a pattern is a sequence of
\* nodes, matched by backtracking in the priority order of the JS engine.
\* ------------------------------------------------------------------------
Unbounded == 1000

\* a character class with a quantifier {min,max}, greedy or lazy
Cls(set, min, max, lazy) ==
  [t |-> "cls", set |-> set, min |-> min, max |-> max, lazy |-> lazy, alts |-> <<>>]

One(set) == Cls(set, 1, 1, FALSE)

Star(set) == Cls(set, 0, Unbounded, FALSE)

Plus(set) == Cls(set, 1, Unbounded, FALSE)

Opt(set) == Cls(set, 0, 1, FALSE)

\* (?:a|b|...) where each alternative is a pattern
Alt(alts) ==
  [t |-> "alt", set |-> {}, min |-> 1, max |-> 1, lazy |-> FALSE, alts |-> alts]

\* opening and closing parenthesis of capture group 1
Open == [t |-> "open", set |-> {}, min |-> 1, max |-> 1, lazy |-> FALSE, alts |-> <<>>]

Close == [t |-> "close", set |-> {}, min |-> 1, max |-> 1, lazy |-> FALSE, alts |-> <<>>]

\* $ without the m flag: end of input
Eol == [t |-> "eol", set |-> {}, min |-> 1, max |-> 1, lazy |-> FALSE, alts |-> <<>>]

\* a literal under the i flag
LitI(s) == [i \in 1..Len(s) |-> One({LowerChar(s[i]), UpperChar(s[i])})]

\* a literal without the i flag
Lit(s) == [i \in 1..Len(s) |-> One({s[i]})]

NoMatch == [ok |-> FALSE, s |-> 0, e |-> 0, cs |-> 0, ce |-> 0]

\* number of consecutive characters of set from position pos, at most max
RECURSIVE Run(_, _, _, _)
Run(text, pos, set, max) ==
  IF max = 0 \/ pos > Len(text) \/ text[pos] \notin set THEN 0
  ELSE 1 + Run(text, pos + 1, set, max - 1)

RECURSIVE MatchAt(_, _, _, _, _)
RECURSIVE TryCounts(_, _, _, _, _, _, _, _, _)
RECURSIVE TryAlts(_, _, _, _, _, _, _)
RECURSIVE OrElseCount(_, _, _, _, _, _, _, _, _, _)
RECURSIVE OrElseAlt(_, _, _, _, _, _, _, _)

\* the pattern re matched against text from position pos
MatchAt(re, text, pos, cs, ce) ==
  IF re = <<>> THEN [ok |-> TRUE, s |-> 0, e |-> pos, cs |-> cs, ce |-> ce]
  ELSE LET n == Head(re)
           rest == Tail(re)
       IN CASE n.t = "open" -> MatchAt(rest, text, pos, pos, ce)
            [] n.t = "close" -> MatchAt(rest, text, pos, cs, pos)
            [] n.t = "eol" ->
                 IF pos = Len(text) + 1 THEN MatchAt(rest, text, pos, cs, ce)
                 ELSE NoMatch
            [] n.t = "alt" -> TryAlts(n.alts, 1, rest, text, pos, cs, ce)
            [] OTHER ->
                 LET r == Run(text, pos, n.set, n.max)
                 IN IF r < n.min THEN NoMatch
                    ELSE TryCounts(rest, text, pos, cs, ce,
                                   IF n.lazy THEN n.min ELSE r, n.min, r, n.lazy)

\* the quantified class takes c characters; on failure of the rest it gives one
\* back (greedy) or takes one more (lazy)
TryCounts(rest, text, pos, cs, ce, c, lo, hi, lazy) ==
  IF c < lo \/ c > hi THEN NoMatch
  ELSE OrElseCount(MatchAt(rest, text, pos + c, cs, ce),
                   rest, text, pos, cs, ce, c, lo, hi, lazy)

OrElseCount(res, rest, text, pos, cs, ce, c, lo, hi, lazy) ==
  IF res.ok THEN res
  ELSE TryCounts(rest, text, pos, cs, ce, IF lazy THEN c + 1 ELSE c - 1, lo, hi, lazy)

\* the alternatives in order
TryAlts(alts, k, rest, text, pos, cs, ce) ==
  IF k > Len(alts) THEN NoMatch
  ELSE OrElseAlt(MatchAt(alts[k] \o rest, text, pos, cs, ce),
                 alts, k, rest, text, pos, cs, ce)

OrElseAlt(res, alts, k, rest, text, pos, cs, ce) ==
  IF res.ok THEN res ELSE TryAlts(alts, k + 1, rest, text, pos, cs, ce)

\* leftmost match of re in text starting at or after position from
RECURSIVE SearchFrom(_, _, _)
RECURSIVE OrElseSearch(_, _, _, _)
SearchFrom(re, text, from) ==
  IF from > Len(text) + 1 THEN NoMatch
  ELSE OrElseSearch(MatchAt(re, text, from, 0, 0), re, text, from)

OrElseSearch(res, re, text, from) ==
  IF res.ok THEN [res EXCEPT !.s = from] ELSE SearchFrom(re, text, from + 1)

\* text.match(re): the match record, capture group 1 in Capture
Search(re, text) == SearchFrom(re, text, 1)

Capture(text, m) ==
  IF m.ok /\ m.cs > 0 /\ m.ce > m.cs THEN SubSeq(text, m.cs, m.ce - 1) ELSE <<>>

\* text.match(re) with the g flag: every match's whole text, left to right
RECURSIVE MatchAll(_, _, _)
RECURSIVE AndMore(_, _, _)
MatchAll(re, text, from) == AndMore(SearchFrom(re, text, from), re, text)

AndMore(m, re, text) ==
  IF ~m.ok THEN <<>>
  ELSE <<SubSeq(text, m.s, m.e - 1)>>
       \o MatchAll(re, text, IF m.e > m.s THEN m.e ELSE m.e + 1)

\* ------------------------------------------------------------------------
\* DataExtractionModule.extractBillData
\* ------------------------------------------------------------------------
\* [\s#:]
SepHash == WS \cup {"#", ":"}

\* [.\s#:]
SepDot == WS \cup {".", "#", ":"}

\* [\s:]
SepColon == WS \cup {":"}

\* [A-Z0-9\-] under the i flag
AlnumHyphen == Letter \cup Digit \cup {"-"}

\* [\/\-]
DateSep == {"/", "-"}

\* [A-Za-z\s&]
NameChar == Letter \cup WS \cup {"&"}

\* the currency class of the amount patterns
Currency == {Rupee, "$"}

\* [\d,]
DigitComma == Digit \cup {","}

billNoPatterns ==
  << <<Alt(<<LitI(<<"I","n","v","o","i","c","e">>), LitI(<<"B","i","l","l">>),
            LitI(<<"I","N","V">>)>>), Star(SepHash)>>
       \o LitI(<<"N","o">>)
       \o <<Star(SepDot), Open, Plus(AlnumHyphen), Close>>,
     <<Alt(<<LitI(<<"I","n","v","o","i","c","e">>), LitI(<<"B","i","l","l">>)>>),
       Star(SepHash), Open, Cls(AlnumHyphen, 4, Unbounded, FALSE), Close>>,
     LitI(<<"N","o">>) \o <<Star(SepDot), Open, Plus(AlnumHyphen), Close>> >>

\* \d{1,2}[\/\-]\d{1,2}[\/\-]\d{2,4}
DayFirstToken ==
  <<Open, Cls(Digit, 1, 2, FALSE), One(DateSep), Cls(Digit, 1, 2, FALSE),
    One(DateSep), Cls(Digit, 2, 4, FALSE), Close>>

\* \d{4}[\/\-]\d{1,2}[\/\-]\d{1,2}
YearFirstToken ==
  <<Open, Cls(Digit, 4, 4, FALSE), One(DateSep), Cls(Digit, 1, 2, FALSE),
    One(DateSep), Cls(Digit, 1, 2, FALSE), Close>>

datePatterns ==
  << <<Alt(<<LitI(<<"D","a","t","e">>),
             LitI(<<"D","a","t","e">>) \o <<Opt({"d", "D"})>> >>),
       Star(SepColon)>> \o DayFirstToken,
     DayFirstToken,
     YearFirstToken >>

\* (?:\n|GST|Date|Invoice|Total|$)
CustomerEnd ==
  Alt(<< Lit(<<"\n">>), LitI(<<"G","S","T">>), LitI(<<"D","a","t","e">>),
         LitI(<<"I","n","v","o","i","c","e">>), LitI(<<"T","o","t","a","l">>),
         <<Eol>> >>)

customerPatterns ==
  << <<Alt(<<LitI(<<"T","o">>), LitI(<<"C","u","s","t","o","m","e","r">>),
             LitI(<<"B","i","l","l">>) \o <<Star(WS)>> \o LitI(<<"T","o">>)>>),
       Plus(SepColon), Open, One(Letter), Cls(NameChar, 1, Unbounded, TRUE), Close,
       CustomerEnd>>,
     LitI(<<"C","u","s","t","o","m","e","r">>) \o <<Star(WS)>>
       \o LitI(<<"N","a","m","e">>)
       \o <<Plus(SepColon), Open, One(Letter), Cls(NameChar, 1, Unbounded, TRUE),
            Close, CustomerEnd>> >>

\* [\s:]*[Rs$]?[\s]*([\d,]+\.?\d*)
AmountTail ==
  <<Star(SepColon), Opt(Currency), Star(WS), Open, Plus(DigitComma), Opt({"."}),
    Star(Digit), Close>>

gstPatterns ==
  << <<Alt(<<LitI(<<"G","S","T">>), LitI(<<"T","a","x">>)>>)>> \o AmountTail,
     LitI(<<"G","S","T">>) \o <<Star(WS)>> \o LitI(<<"A","m","o","u","n","t">>)
       \o AmountTail >>

totalPatterns ==
  << <<Alt(<<LitI(<<"T","o","t","a","l">>),
             LitI(<<"G","r","a","n","d">>) \o <<Star(WS)>> \o LitI(<<"T","o","t","a","l">>),
             LitI(<<"A","m","o","u","n","t">>) \o <<Star(WS)>>
               \o LitI(<<"P","a","y","a","b","l","e">>)>>)>> \o AmountTail,
     LitI(<<"T","o","t","a","l">>) \o <<Star(WS)>> \o LitI(<<"A","m","o","u","n","t">>)
       \o AmountTail >>

\* /[Rs$]?[\s]*([\d,]+\.?\d*)/g of the total fallback
NumberToken ==
  <<Opt(Currency), Star(WS), Open, Plus(DigitComma), Opt({"."}), Star(Digit), Close>>

\* for (const pattern of patterns) { match = text.match(pattern);
\*   if (match && match[1]) ... break }: capture 1 of the first pattern whose
\* capture is non-empty, <<>> when there is none
RECURSIVE FirstCapture(_, _, _)
RECURSIVE OrNextPattern(_, _, _, _)
\* a loop that leaves the text in the field when no pattern matches
FirstCaptureOrText(patterns, k, text) ==
  IF k > Len(patterns) THEN text
  ELSE OrNextPattern(Capture(text, Search(patterns[k], text)), patterns, k, text)

FirstCapture(patterns, k, text) ==
  IF k > Len(patterns) THEN <<>>
  ELSE OrNextPattern(Capture(text, Search(patterns[k], text)), patterns, k, text)

OrNextPattern(c, patterns, k, text) ==
  IF c # <<>> THEN c ELSE FirstCapture(patterns, k + 1, text)

\* dateStr.split(/[\/\-]/)
RECURSIVE SplitOn(_, _, _)
SplitOn(s, seps, cur) ==
  IF s = <<>> THEN <<cur>>
  ELSE IF Head(s) \in seps THEN <<cur>> \o SplitOn(Tail(s), seps, <<>>)
       ELSE SplitOn(Tail(s), seps, Append(cur, Head(s)))

\* the body of the date loop for one matched dateStr
FormatDate(parts) ==
  IF Len(parts) = 3
  THEN IF Len(parts[1]) = 4
       THEN parts[1] \o <<"-">> \o padStart2(parts[2]) \o <<"-">> \o padStart2(parts[3])
       ELSE (IF Len(parts[3]) = 2 THEN <<"2","0">> \o parts[3] ELSE parts[3])
            \o <<"-">> \o padStart2(parts[2]) \o <<"-">> \o padStart2(parts[1])
  ELSE <<>>

NormalizeDate(dateStr) ==
  IF dateStr = <<>> THEN <<>> ELSE FormatDate(SplitOn(trim(dateStr), DateSep, <<>>))

\* the date loop: a match whose split has three parts sets the date and breaks;
\* any other match leaves the date unset and the loop goes on
RECURSIVE ExtractDate(_, _)
RECURSIVE OrNextDate(_, _, _)
ExtractDate(k, text) ==
  IF k > Len(datePatterns) THEN <<>>
  ELSE OrNextDate(NormalizeDate(Capture(text, Search(datePatterns[k], text))), k, text)

OrNextDate(d, k, text) == IF d # <<>> THEN d ELSE ExtractDate(k + 1, text)

\* Number values of the total fallback: an exact decimal, ip its integer part
\* and fd its fraction digits without trailing zeros
RECURSIVE DigitsVal(_, _)
DigitsVal(s, acc) ==
  IF s = <<>> THEN acc ELSE DigitsVal(Tail(s), acc * 10 + DigitVal(Head(s)))

RECURSIVE DropTrailingZeros(_)
DropTrailingZeros(s) ==
  IF s # <<>> /\ s[Len(s)] = "0" THEN DropTrailingZeros(SubSeq(s, 1, Len(s) - 1))
  ELSE s

NaN == [nan |-> TRUE, ip |-> 0, fd |-> <<>>]

\* parseFloat: leading white space skipped, then the longest prefix that is a
\* decimal literal (digits, optional point and digits; or point and digits)
DecimalLiteral(s, ni, nf) ==
  IF ni = 0 /\ nf = 0 THEN NaN
  ELSE [nan |-> FALSE,
        ip |-> DigitsVal(SubSeq(s, 1, ni), 0),
        fd |-> DropTrailingZeros(SubSeq(s, ni + 2, ni + 1 + nf))]

FractionOf(s, ni) ==
  DecimalLiteral(s, ni, IF ni < Len(s) /\ s[ni + 1] = "."
                        THEN Run(s, ni + 2, Digit, Unbounded) ELSE 0)

IntegerOf(s) == FractionOf(s, Run(s, 1, Digit, Unbounded))

parseFloat(str) == IntegerOf(TrimLeft(str))

\* a < b on Number values
RECURSIVE FracLess(_, _)
FracLess(a, b) ==
  IF b = <<>> THEN FALSE
  ELSE IF a = <<>> THEN TRUE
       ELSE IF DigitVal(Head(a)) # DigitVal(Head(b))
            THEN DigitVal(Head(a)) < DigitVal(Head(b))
            ELSE FracLess(Tail(a), Tail(b))

NumLess(a, b) == a.ip < b.ip \/ (a.ip = b.ip /\ FracLess(a.fd, b.fd))

\* the first value instead of the largest
MathFirst(values, best) == best

\* Math.max(...values)
RECURSIVE MathMax(_, _)
MathMax(values, best) ==
  IF values = <<>> THEN best
  ELSE MathMax(Tail(values), IF NumLess(best, Head(values)) THEN Head(values) ELSE best)

\* Number.prototype.toString of a non-negative integer
RECURSIVE IntToString(_)
IntToString(n) ==
  IF n < 10 THEN <<DigitSeq[n + 1]>>
  ELSE IntToString(n \div 10) \o <<DigitSeq[(n % 10) + 1]>>

\* Number.prototype.toString (values below 1e21, shortest round-trip digits)
NumToString(v) ==
  IntToString(v.ip) \o (IF v.fd = <<>> THEN <<>> ELSE <<".">> \o v.fd)

\* numbers.map(n => parseFloat(n.replace(/[Rs$,]/g, ''))).filter(n => !isNaN(n))
NotNaN(v) == IF v.nan THEN <<>> ELSE <<v>>

RECURSIVE ParseAll(_)
ParseAll(numbers) ==
  IF numbers = <<>> THEN <<>>
  ELSE NotNaN(parseFloat(Strip(Head(numbers), Currency \cup {","})))
       \o ParseAll(Tail(numbers))

\* Math.max(...values).toString(), '' when values is empty
MaxString(values) ==
  IF values = <<>> THEN <<>> ELSE NumToString(MathMax(Tail(values), Head(values)))

\* the largest number of the text, '' when it has none
TotalFallback(text) == MaxString(ParseAll(MatchAll(NumberToken, text, 1)))

Fields == {"billNo", "date", "customer", "gst", "total"}

\* Object.keys(merged): the fields in insertion order
FieldSeq == <<"billNo", "date", "customer", "gst", "total">>

\* String.prototype.substring(0, 100)
substring100(s) == SubSeq(s, 1, IF Len(s) < 100 THEN Len(s) ELSE 100)

\* if (!data.total) { the total fallback }
OrFallback(total, text) == IF total = <<>> THEN TotalFallback(text) ELSE total

extractBillData(text) ==
  [billNo |-> trim(FirstCapture(billNoPatterns, 1, text)),
   date |-> ExtractDate(1, text),
   customer |-> substring100(FirstLine(trim(FirstCapture(customerPatterns, 1, text)))),
   gst |-> Strip(FirstCapture(gstPatterns, 1, text), {","}),
   total |-> OrFallback(Strip(FirstCapture(totalPatterns, 1, text), {","}), text)]

\* ------------------------------------------------------------------------
\* Numbers: a confidence is an exact fraction n/d in lowest terms
\* ------------------------------------------------------------------------
RECURSIVE GCD(_, _)
GCD(a, b) == IF b = 0 THEN a ELSE GCD(b, a % b)

Rat(n, d) == LET g == GCD(n, d) IN [n |-> n \div g, d |-> d \div g]

Zero == Rat(0, 1)

RatAdd(a, b) == Rat(a.n * b.d + b.n * a.d, a.d * b.d)

RatLess(a, b) == a.n * b.d < b.n * a.d

\* Math.round(x * 100) / 100
Round2(x) == Rat((200 * x.n + x.d) \div (2 * x.d), 100)

\* ------------------------------------------------------------------------
\* ConfidenceModule: fieldConfidences maps a field to its entry; has is FALSE
\* for a key the object does not hold
\* ------------------------------------------------------------------------
NoEntry ==
  [has |-> FALSE, confidence |-> Zero, value |-> <<>>, needsReview |-> FALSE,
   status |-> "none"]

\* ConfidenceModule.reset
reset == [f \in Fields |-> NoEntry]

\* ConfidenceModule.setFieldConfidence, on the object fc
setFieldConfidence(fc, fieldName, confidence, value) ==
  [fc EXCEPT ![fieldName] =
     [has |-> TRUE,
      confidence |-> Round2(confidence),
      value |-> value,
      needsReview |-> RatLess(confidence, Rat(7, 10)),
      status |-> IF ~RatLess(confidence, Rat(8, 10)) THEN "high"
                 ELSE IF ~RatLess(confidence, Rat(6, 10)) THEN "medium"
                 ELSE "low"]]

\* ------------------------------------------------------------------------
\* DataExtractionModule.extractBillDataWithConfidence
\* ------------------------------------------------------------------------
\* an OCR result without an overall confidence ({ words } of mergeScanResults)
NoConfidence == -1

\* a filter that keeps only the words whose text is part of the value
MatchingWordsOneWay(words, fieldValue) ==
  SelectSeq(words, LAMBDA word :
    includes(toLowerCase(fieldValue), toLowerCase(word.text)))

\* words.filter(...): the words whose text is part of the value or holds it
MatchingWords(words, fieldValue) ==
  SelectSeq(words, LAMBDA word :
    \/ includes(toLowerCase(fieldValue), toLowerCase(word.text))
    \/ includes(toLowerCase(word.text), toLowerCase(fieldValue)))

RECURSIVE SumConfidence(_)
SumConfidence(words) ==
  IF words = <<>> THEN 0 ELSE Head(words).confidence + SumConfidence(Tail(words))

\* the helper getFieldConfidence of extractBillDataWithConfidence
\* the confidence of a non-empty value from its matching words
WordConfidence(matchingWords, ocrData) ==
  IF matchingWords = <<>>
  THEN (IF ocrData.confidence # NoConfidence /\ ocrData.confidence # 0
        THEN Rat(ocrData.confidence, 100)
        ELSE Rat(1, 2))
  ELSE Rat(SumConfidence(matchingWords), Len(matchingWords) * 100)

getFieldConfidence(fieldValue, ocrData) ==
  IF fieldValue = <<>> \/ trim(fieldValue) = <<>> THEN Zero
  ELSE WordConfidence(MatchingWords(ocrData.words, fieldValue), ocrData)

\* Object.keys(fieldConfidences).forEach(field => setFieldConfidence(...))
RECURSIVE StoreAll(_, _, _, _)
StoreAll(fc, k, fieldConfidences, billData) ==
  IF k > Len(FieldSeq) THEN fc
  ELSE StoreAll(setFieldConfidence(fc, FieldSeq[k], fieldConfidences[FieldSeq[k]],
                                   billData[FieldSeq[k]]),
                k + 1, fieldConfidences, billData)

\* returns billData and fieldConfidences; fc is ConfidenceModule.fieldConfidences
\* after the call
Extraction(billData, confidences, fc) ==
  [billData |-> billData, fieldConfidences |-> confidences,
   fc |-> StoreAll(fc, 1, confidences, billData)]

WithConfidence(billData, ocrData, fc) ==
  Extraction(billData, [f \in Fields |-> getFieldConfidence(billData[f], ocrData)], fc)

extractBillDataWithConfidence(text, ocrData, fc) ==
  WithConfidence(extractBillData(text), ocrData, fc)

\* ------------------------------------------------------------------------
\* OCRModule.mergeField and OCRModule.mergeScanResults
\* ------------------------------------------------------------------------
\* .filter(v => v && v.trim() !== '')
NonBlank(values) == SelectSeq(values, LAMBDA v : v # <<>> /\ trim(v) # <<>>)

FieldValues(fieldName, extractions) ==
  NonBlank([i \in 1..Len(extractions) |-> extractions[i].billData[fieldName]])

Count(values, v) == Cardinality({i \in 1..Len(values) : values[i] = v})

\* a < b for digit strings without leading zeros
RECURSIVE LexLess(_, _)
LexLess(a, b) ==
  IF a = <<>> \/ b = <<>> THEN FALSE
  ELSE IF Head(a) # Head(b) THEN DigitVal(Head(a)) < DigitVal(Head(b))
       ELSE LexLess(Tail(a), Tail(b))

DigitsLess(a, b) == Len(a) < Len(b) \/ (Len(a) = Len(b) /\ LexLess(a, b))

\* 2^32 - 2, the largest array index
MaxArrayIndex == <<"4","2","9","4","9","6","7","2","9","4">>

\* a property key that is a canonical array index: such keys come first in
\* Object.keys, in ascending numeric order
IsArrayIndex(v) ==
  /\ v # <<>>
  /\ \A i \in 1..Len(v) : v[i] \in Digit
  /\ (Len(v) = 1 \/ v[1] # "0")
  /\ ~DigitsLess(MaxArrayIndex, v)

\* the distinct values in order of first occurrence (insertion order of frequency)
RECURSIVE InsertionOrder(_, _)
InsertionOrder(values, seen) ==
  IF values = <<>> THEN <<>>
  ELSE IF Head(values) \in seen THEN InsertionOrder(Tail(values), seen)
       ELSE <<Head(values)>> \o InsertionOrder(Tail(values), seen \cup {Head(values)})

RECURSIVE Ascending(_)
Ascending(keys) ==
  IF keys = {} THEN <<>>
  ELSE LET m == CHOOSE k \in keys : \A o \in keys : ~DigitsLess(o, k)
       IN <<m>> \o Ascending(keys \ {m})

\* Object.keys(frequency)
KeyOrder(keys) ==
  Ascending({k \in Range(keys) : IsArrayIndex(k)})
  \o SelectSeq(keys, LAMBDA k : ~IsArrayIndex(k))

ObjectKeys(values) == KeyOrder(InsertionOrder(values, {}))

\* Object.keys(frequency).forEach(value => { if (frequency[value] > maxFreq) ... })
RECURSIVE MostFrequent(_, _, _, _)
MostFrequent(keys, values, maxFreq, mostFrequent) ==
  IF keys = <<>> THEN mostFrequent
  ELSE IF Count(values, Head(keys)) > maxFreq
       THEN MostFrequent(Tail(keys), values, Count(values, Head(keys)), Head(keys))
       ELSE MostFrequent(Tail(keys), values, maxFreq, mostFrequent)

\* a merge that takes the value of the first pass that has one
MergeFirst(values) == IF values = <<>> THEN <<>> ELSE values[1]

\* a merge that asks for a strict majority of the values
MergeStrict(values) ==
  IF \E i \in 1..Len(values) : 2 * Count(values, values[i]) > Len(values)
  THEN MostFrequent(ObjectKeys(values), values, 0, values[1])
  ELSE <<>>

\* a merge that asks for two passes to agree
MergeAgreed(values) ==
  IF \E i \in 1..Len(values) : Count(values, values[i]) >= 2
  THEN MostFrequent(ObjectKeys(values), values, 0, values[1])
  ELSE <<>>

\* mergeField from "if (values.length === 0) return ''" on
MergeValues(values) ==
  IF values = <<>> THEN <<>>
  ELSE MostFrequent(ObjectKeys(values), values, 0, values[1])

mergeField(fieldName, allExtractions) ==
  MergeValues(FieldValues(fieldName, allExtractions))

\* results.map(...): the extraction of every pass; fc of an element is the
\* aggregator after the extraction of that pass
RECURSIVE AllExtractions(_, _, _)
RECURSIVE AndNextPass(_, _, _)
AllExtractions(results, k, fc) ==
  IF k > Len(results) THEN <<>>
  ELSE AndNextPass(extractBillDataWithConfidence(
                     results[k].text,
                     [words |-> results[k].words, confidence |-> NoConfidence], fc),
                   results, k)

AndNextPass(e, results, k) ==
  <<[billData |-> e.billData, fieldConfidences |-> e.fieldConfidences,
     passIndex |-> k - 1, confidence |-> results[k].confidence, fc |-> e.fc]>>
  \o AllExtractions(results, k + 1, e.fc)

\* a consistency that needs more than one value
ShareOfSeveral(values, mergedValue) ==
  IF Len(values) > 1 THEN Rat(Count(values, mergedValue), Len(values)) ELSE Zero

\* consistentCount / values.length, 0 for no value
ConsistentShare(values, mergedValue) ==
  IF Len(values) > 0 THEN Rat(Count(values, mergedValue), Len(values)) ELSE Zero

Consistency(field, mergedData, allExtractions) ==
  ConsistentShare(FieldValues(field, allExtractions), mergedData[field])

RECURSIVE SumRat(_, _)
SumRat(fcs, k) ==
  IF k > Len(FieldSeq) THEN Zero ELSE RatAdd(fcs[FieldSeq[k]], SumRat(fcs, k + 1))

\* sum / Object.keys(fieldConfidences).length
Mean(total) == Rat(total.n, total.d * Len(FieldSeq))

\* a merge that leaves the aggregator as the last pass wrote it
MergeReturnNoStore(mergedData, confidences, fc) ==
  [billData |-> mergedData,
   fieldConfidences |-> confidences,
   overallConfidence |-> Mean(SumRat(confidences, 1)),
   fc |-> fc]

MergeReturn(mergedData, confidences, fc) ==
  [billData |-> mergedData,
   fieldConfidences |-> confidences,
   overallConfidence |-> Mean(SumRat(confidences, 1)),
   fc |-> StoreAll(fc, 1, confidences, mergedData)]

MergeConfidences(mergedData, allExtractions, fc) ==
  MergeReturn(mergedData,
              [f \in Fields |-> Consistency(f, mergedData, allExtractions)], fc)

MergeExtractions(allExtractions, fc) ==
  MergeConfidences([f \in Fields |-> mergeField(f, allExtractions)], allExtractions,
                   IF allExtractions = <<>> THEN fc
                   ELSE allExtractions[Len(allExtractions)].fc)

\* returns billData, fieldConfidences and overallConfidence; fc is
\* ConfidenceModule.fieldConfidences before the call and, in the result, after it
mergeScanResults(results, fc) == MergeExtractions(AllExtractions(results, 1, fc), fc)

\* ------------------------------------------------------------------------
\* The OCR engine (Tesseract worker) and what it may return
\* ------------------------------------------------------------------------
Total100 == <<"T","o","t","a","l"," ","1","0","0">>

\* data of worker.recognize: text, confidence 0..100, words
EngineData ==
  { [text |-> Total100, confidence |-> 90,
     words |-> <<[text |-> <<"1","0","0">>, confidence |-> 95]>>] }

NoData == [text |-> <<>>, confidence |-> 0, words |-> <<>>]

\* the result pushed by a pass of performFullScan
PassResult(d) ==
  [text |-> d.text, confidence |-> Rat(d.confidence, 100), words |-> d.words]

\* ------------------------------------------------------------------------
\* OCRModule scan state machine.  Every extractText invocation is a
\* coroutine s; an action is the code that runs from one await to the next.
\* ------------------------------------------------------------------------
MaxScans == 2

MaxCancels == 1

\* const passes = 3
passes == 3

Scans == 1..MaxScans

\* the worker created by scan s in pass p (p = 1 for a quick scan)
Workers == Scans \X (1..passes)

null == <<0, 0>>

\* no call of a pure function was made, and the value v one returned
NoCall == [made |-> FALSE]

Call(v) == [made |-> TRUE, value |-> v]

NoMerge ==
  [billData |-> [f \in Fields |-> <<>>], fieldConfidences |-> [f \in Fields |-> Zero],
   overallConfidence |-> Zero, fc |-> reset]

VARIABLES
  currentImageFile,   \* StorageModule.currentImageFile is set
  imageQuality,       \* quality.overall of the current image
  qualityWarning,     \* the #qualityWarning element: "absent", "block" or "none"
  currentScanMode,    \* StorageModule.currentScanMode
  isScanning,         \* OCRModule.isScanning
  cancelRequested,    \* OCRModule.cancelRequested
  currentWorker,      \* OCRModule.currentWorker
  fieldConfidences,   \* ConfidenceModule.fieldConfidences
  worker,             \* each worker: "none", "live" or "terminated"
  pc,                 \* where coroutine s is suspended
  scanMode,           \* const scanMode of coroutine s
  fileQuality,        \* quality.overall of the file coroutine s analyses
  pass,               \* the loop variable i of performFullScan
  results,            \* const results of performFullScan
  data,               \* const { data } of the pass in progress
  thrown,             \* the error that ended the try block of coroutine s
  outcome,            \* how coroutine s ended
  pendingCancels,     \* cancelScan invocations suspended at await terminate()
  cancels,            \* cancelScan invocations that found isScanning
  shown,              \* showOCRResults was called by scan s
  mergeRun,           \* mergeScanResults was called by scan s
  recordedBy,         \* the scan whose setFieldConfidence wrote each entry
  cancelHit,          \* cancelScan acted while scan s was in flight
  cancelEarly,        \* ... while full scan s was between passes, before recognize
  cancelKilled,       \* cancelScan terminated the worker scan s was awaiting
  otherStarted,       \* another scan began while scan s was in flight
  acknowledged,       \* 'Continue Anyway' was chosen for the current image
  passResults,        \* the argument of a mergeScanResults call
  extractions,        \* its allExtractions
  merged,             \* its return value
  arg,                \* the argument of a call of one of the pure functions
  ret,                \* what that call returned
  store,              \* the records of the IndexedDB object store 'bills'
  nextId,             \* the key generator of the store (autoIncrement)
  form,               \* the OCR results card and the bill number typed in it
  save,               \* the DataModule.saveBill coroutines
  consumed            \* the result of the last scan was saved or cleared

ui == <<currentImageFile, imageQuality, qualityWarning, currentScanMode>>

flags == <<isScanning, cancelRequested>>

locals == <<pass, results, data>>

ending == <<thrown, outcome>>

aggregator == <<fieldConfidences, recordedBy>>

cancelling == <<pendingCancels, cancels>>

calls == <<shown, mergeRun>>

ghost == <<cancelHit, cancelEarly, cancelKilled, otherStarted, acknowledged>>

mergeCall == <<passResults, extractions, merged>>

pureCall == <<arg, ret>>

billing == <<store, nextId, form, save, consumed>>

scanVars ==
  <<ui, flags, currentWorker, worker, pc, scanMode, fileQuality, locals, ending,
    aggregator, cancelling, calls, ghost>>

vars == <<scanVars, mergeCall, pureCall, billing>>

\* the awaits of a scan between "this.isScanning = true" and the finally block
InFlightPc == {"create", "setParameters", "cancelTerminate", "recognize", "terminate"}

InFlight(s) == pc[s] \in InFlightPc

\* ------------------------------------------------------------------------
\* Saving a bill: the form, the DataModule.saveBill coroutines and the store
\* ------------------------------------------------------------------------
MaxSaves == 2

Saves == 1..MaxSaves

\* the bill numbers a user types
BillNos == {<<"B","1">>, <<"B","2">>}

\* the result of index.get when no record has the bill number
NoRecord == [id |-> 0, billNo |-> <<>>]

IdleSave == [pc |-> "idle", billNo |-> <<>>, found |-> NoRecord, prompted |-> FALSE,
             afterUse |-> FALSE, outcome |-> "none"]

InitBilling ==
  /\ store = {}
  /\ nextId = 1
  /\ form = [shown |-> FALSE, billNo |-> <<>>]
  /\ save = [k \in Saves |-> IdleSave]
  /\ consumed = FALSE

InitScan ==
  /\ InitBilling
  /\ currentImageFile = FALSE
  /\ imageQuality = "good"
  /\ qualityWarning = "absent"
  /\ currentScanMode = "full"
  /\ isScanning = FALSE
  /\ cancelRequested = FALSE
  /\ currentWorker = null
  /\ fieldConfidences = reset
  /\ worker = [w \in Workers |-> "none"]
  /\ pc = [s \in Scans |-> "idle"]
  /\ scanMode = [s \in Scans |-> "none"]
  /\ fileQuality = [s \in Scans |-> "none"]
  /\ pass = [s \in Scans |-> 0]
  /\ results = [s \in Scans |-> <<>>]
  /\ data = [s \in Scans |-> NoData]
  /\ thrown = [s \in Scans |-> "none"]
  /\ outcome = [s \in Scans |-> "none"]
  /\ pendingCancels = 0
  /\ cancels = 0
  /\ shown = [s \in Scans |-> FALSE]
  /\ mergeRun = [s \in Scans |-> FALSE]
  /\ recordedBy = [f \in Fields |-> 0]
  /\ cancelHit = [s \in Scans |-> FALSE]
  /\ cancelEarly = [s \in Scans |-> FALSE]
  /\ cancelKilled = [s \in Scans |-> FALSE]
  /\ otherStarted = [s \in Scans |-> FALSE]
  /\ acknowledged = FALSE

Init ==
  /\ InitScan
  /\ passResults = <<>>
  /\ extractions = <<>>
  /\ merged = NoMerge
  /\ arg = NoCall
  /\ ret = NoCall

\* The model follows the user interface while one of the MaxScans scans can
\* still be requested
ScanToCome == \E s \in Scans : pc[s] = "idle"

\* UIModule.handleImageSelect: the file is stored, its quality analysed and
\* the warning shown or hidden
handleImageSelect(q) ==
  /\ ScanToCome
  /\ currentImageFile' = TRUE
  /\ imageQuality' = q
  /\ qualityWarning' = IF q = "poor" THEN "block"
                       ELSE IF qualityWarning = "absent" THEN "absent" ELSE "none"
  /\ acknowledged' = FALSE
  /\ UNCHANGED <<currentScanMode, flags, currentWorker, worker, pc, scanMode,
                 fileQuality, locals, ending, aggregator, cancelling, calls, cancelHit,
                 cancelEarly, cancelKilled, otherStarted, mergeCall, pureCall, billing>>

\* UIModule.hideQualityWarning, the "Continue Anyway" button of the warning
hideQualityWarning ==
  /\ ScanToCome
  /\ qualityWarning = "block"
  /\ qualityWarning' = "none"
  /\ acknowledged' = TRUE
  /\ UNCHANGED <<currentImageFile, imageQuality, currentScanMode, flags,
                 currentWorker, worker, pc, scanMode, fileQuality, locals, ending,
                 aggregator, cancelling, calls, cancelHit, cancelEarly, cancelKilled,
                 otherStarted, mergeCall, pureCall, billing>>

\* the change listener of #scanMode
setScanMode(m) ==
  /\ ScanToCome
  /\ currentScanMode # m
  /\ currentScanMode' = m
  /\ UNCHANGED <<currentImageFile, imageQuality, qualityWarning, flags,
                 currentWorker, worker, pc, scanMode, fileQuality, locals, ending,
                 aggregator, cancelling, calls, ghost, mergeCall, pureCall, billing>>

\* a catch block that reports no error at all
CatchSilent(error) == IF error = "none" THEN "done" ELSE "cancelled"

\* the catch block of extractText: every error but 'Scan cancelled' is
\* reported as 'OCR processing failed'
Catch(error) ==
  IF error = "none" THEN "done"
  ELSE IF error # "Scan cancelled" THEN "failed" ELSE "cancelled"

\* the end of the try block of scan s with error (or "none"), then the catch and
\* finally blocks of extractText; the locals of the coroutine are gone
Finally(s, error) ==
  /\ isScanning' = FALSE
  /\ cancelRequested' = FALSE
  /\ thrown' = [thrown EXCEPT ![s] = error]
  /\ outcome' = [outcome EXCEPT ![s] = Catch(error)]
  /\ pc' = [pc EXCEPT ![s] = "end"]
  /\ pass' = [pass EXCEPT ![s] = 0]
  /\ results' = [results EXCEPT ![s] = <<>>]
  /\ data' = [data EXCEPT ![s] = NoData]

\* extractText up to "await ImageQualityModule.analyzeQuality(file)"
extractText(s) ==
  /\ pc[s] = "idle"
  /\ \A t \in Scans : t < s => pc[t] # "idle"
  /\ IF ~currentImageFile
     THEN /\ pc' = [pc EXCEPT ![s] = "end"]
          /\ outcome' = [outcome EXCEPT ![s] = "no file"]
          /\ UNCHANGED fileQuality
     ELSE /\ pc' = [pc EXCEPT ![s] = "quality"]
          /\ fileQuality' = [fileQuality EXCEPT ![s] = imageQuality]
          /\ UNCHANGED outcome
  /\ UNCHANGED <<ui, flags, currentWorker, worker, scanMode, locals, thrown,
                 aggregator, cancelling, calls, ghost, mergeCall, pureCall, billing>>

\* extractText from the quality verdict to the first await of the scan:
\* the quality gate, then isScanning = true, cancelRequested = false, reset()
\* and performQuickScan / performFullScan up to "await Tesseract.createWorker"
BeginScan(s) ==
  /\ pc[s] = "quality"
  /\ IF fileQuality[s] = "poor" /\ qualityWarning # "block"
     THEN /\ qualityWarning' = "block"
          /\ pc' = [pc EXCEPT ![s] = "end"]
          /\ outcome' = [outcome EXCEPT ![s] = "quality warning"]
          /\ UNCHANGED <<flags, aggregator, scanMode, otherStarted>>
     ELSE /\ scanMode' = [scanMode EXCEPT ![s] = currentScanMode]
          /\ isScanning' = TRUE
          /\ cancelRequested' = FALSE
          /\ fieldConfidences' = reset
          /\ recordedBy' = [f \in Fields |-> 0]
          /\ pc' = [pc EXCEPT ![s] = "create"]
          /\ otherStarted' = [t \in Scans |->
                                otherStarted[t] \/ (t # s /\ InFlight(t))]
          /\ UNCHANGED <<qualityWarning, outcome>>
  /\ UNCHANGED <<currentImageFile, imageQuality, currentScanMode, currentWorker,
                 worker, fileQuality, locals, thrown, cancelling, calls, cancelHit,
                 cancelEarly, cancelKilled, acknowledged, mergeCall, pureCall, billing>>

\* "const worker = await Tesseract.createWorker('eng')" resolves:
\* currentWorker = worker, then "await worker.setParameters(...)"
CreateWorkerResolved(s) ==
  /\ pc[s] = "create"
  /\ worker' = [worker EXCEPT ![<<s, pass[s] + 1>>] = "live"]
  /\ currentWorker' = <<s, pass[s] + 1>>
  /\ pc' = [pc EXCEPT ![s] = "setParameters"]
  /\ UNCHANGED <<ui, flags, scanMode, fileQuality, locals, ending, aggregator,
                 cancelling, calls, ghost, mergeCall, pureCall, billing>>

\* setParameters resolves: the cancelRequested check, then either
\* "await worker.terminate()" and the throw, or "await worker.recognize(file)"
SetParametersResolved(s) ==
  /\ pc[s] = "setParameters"
  /\ IF cancelRequested
     THEN /\ worker' = [worker EXCEPT ![<<s, pass[s] + 1>>] = "terminated"]
          /\ pc' = [pc EXCEPT ![s] = "cancelTerminate"]
     ELSE /\ pc' = [pc EXCEPT ![s] = "recognize"]
          /\ UNCHANGED worker
  /\ UNCHANGED <<ui, flags, currentWorker, scanMode, fileQuality, locals, ending,
                 aggregator, cancelling, calls, ghost, mergeCall, pureCall, billing>>

\* the terminate() of the cancel branch resolves: throw new Error('Scan cancelled')
CancelTerminateResolved(s) ==
  /\ pc[s] = "cancelTerminate"
  /\ Finally(s, "Scan cancelled")
  /\ UNCHANGED <<ui, currentWorker, worker, scanMode, fileQuality, aggregator,
                 cancelling, calls, ghost, mergeCall, pureCall, billing>>

\* createWorker, setParameters or recognize rejects with an error of the engine
EngineRejects(s) ==
  /\ pc[s] \in {"create", "setParameters", "recognize"}
  /\ Finally(s, "engine error")
  /\ UNCHANGED <<ui, currentWorker, worker, scanMode, fileQuality, aggregator,
                 cancelling, calls, ghost, mergeCall, pureCall, billing>>

\* recognize resolves with d: "await worker.terminate()"
RecognizeResolved(s, d) ==
  /\ pc[s] = "recognize"
  /\ data' = [data EXCEPT ![s] = d]
  /\ worker' = [worker EXCEPT ![<<s, pass[s] + 1>>] = "terminated"]
  /\ pc' = [pc EXCEPT ![s] = "terminate"]
  /\ UNCHANGED <<ui, flags, currentWorker, scanMode, fileQuality, pass, results,
                 ending, aggregator, cancelling, calls, ghost, mergeCall, pureCall, billing>>

\* performQuickScan after "await worker.terminate()": currentWorker = null,
\* extractBillDataWithConfidence, showOCRResults; then the finally block
QuickScanCompletes(s) ==
  /\ pc[s] = "terminate"
  /\ scanMode[s] # "full"
  /\ currentWorker' = null
  /\ fieldConfidences' =
       extractBillDataWithConfidence(data[s].text, data[s], fieldConfidences).fc
  /\ recordedBy' = [f \in Fields |-> s]
  /\ shown' = [shown EXCEPT ![s] = TRUE]
  /\ Finally(s, "none")
  /\ UNCHANGED <<ui, worker, scanMode, fileQuality, cancelling, mergeRun, ghost,
                 mergeCall, pureCall, billing>>

\* a loop that puts the result of a pass in front of the earlier ones
NextPassInFront(s) ==
  /\ pc[s] = "terminate"
  /\ scanMode[s] = "full"
  /\ pass[s] + 1 < passes
  /\ currentWorker' = null
  /\ IF cancelRequested
     THEN Finally(s, "Scan cancelled")
     ELSE /\ results' = [results EXCEPT ![s] = <<PassResult(data[s])>> \o @]
          /\ pass' = [pass EXCEPT ![s] = @ + 1]
          /\ pc' = [pc EXCEPT ![s] = "create"]
          /\ UNCHANGED <<flags, ending, data>>
  /\ UNCHANGED <<ui, worker, scanMode, fileQuality, aggregator, cancelling, calls,
                 ghost, mergeCall, pureCall, billing>>

\* performFullScan after "await worker.terminate()" of a pass that is not the
\* last: currentWorker = null, results.push, i++, the cancelRequested check
\* at the top of the loop, then "await Tesseract.createWorker"
NextPass(s) ==
  /\ pc[s] = "terminate"
  /\ scanMode[s] = "full"
  /\ pass[s] + 1 < passes
  /\ currentWorker' = null
  /\ IF cancelRequested
     THEN Finally(s, "Scan cancelled")
     ELSE /\ results' = [results EXCEPT ![s] = Append(@, PassResult(data[s]))]
          /\ pass' = [pass EXCEPT ![s] = @ + 1]
          /\ pc' = [pc EXCEPT ![s] = "create"]
          /\ UNCHANGED <<flags, ending, data>>
  /\ UNCHANGED <<ui, worker, scanMode, fileQuality, aggregator, cancelling, calls,
                 ghost, mergeCall, pureCall, billing>>

\* performFullScan after "await worker.terminate()" of the last pass:
\* currentWorker = null, results.push, the loop ends, mergeScanResults,
\* showOCRResults; then the finally block
FullScanCompletes(s) ==
  /\ pc[s] = "terminate"
  /\ scanMode[s] = "full"
  /\ pass[s] + 1 >= passes
  /\ currentWorker' = null
  /\ passResults' = Append(results[s], PassResult(data[s]))
  /\ extractions' = AllExtractions(passResults', 1, fieldConfidences)
  /\ merged' = MergeExtractions(extractions', fieldConfidences)
  /\ fieldConfidences' = merged'.fc
  /\ recordedBy' = [f \in Fields |-> s]
  /\ mergeRun' = [mergeRun EXCEPT ![s] = TRUE]
  /\ shown' = [shown EXCEPT ![s] = TRUE]
  /\ Finally(s, "none")
  /\ UNCHANGED <<ui, worker, scanMode, fileQuality, cancelling, ghost, pureCall, billing>>

\* OCRModule.cancelScan up to "await this.currentWorker.terminate()", or to its
\* end when there is no current worker
cancelScan ==
  /\ isScanning
  /\ cancels < MaxCancels
  /\ cancels' = cancels + 1
  /\ cancelRequested' = TRUE
  /\ IF currentWorker # null
     THEN /\ worker' = [worker EXCEPT ![currentWorker] = "terminated"]
          /\ pendingCancels' = pendingCancels + 1
          /\ UNCHANGED isScanning
     ELSE /\ isScanning' = FALSE
          /\ UNCHANGED <<worker, pendingCancels>>
  /\ cancelHit' = [s \in Scans |-> cancelHit[s] \/ InFlight(s)]
  /\ cancelEarly' = [s \in Scans |->
                       \/ cancelEarly[s]
                       \/ /\ scanMode[s] = "full"
                          /\ pc[s] \in {"create", "setParameters"}]
  /\ cancelKilled' = [s \in Scans |->
                        \/ cancelKilled[s]
                        \/ /\ pc[s] \in {"setParameters", "recognize"}
                           /\ currentWorker = <<s, pass[s] + 1>>]
  /\ UNCHANGED <<ui, currentWorker, pc, scanMode, fileQuality, locals, ending,
                 aggregator, calls, otherStarted, acknowledged, mergeCall, pureCall,
                 billing>>

\* cancelScan after its await: currentWorker = null, isScanning = false
CancelScanResumes ==
  /\ pendingCancels > 0
  /\ pendingCancels' = pendingCancels - 1
  /\ currentWorker' = null
  /\ isScanning' = FALSE
  /\ UNCHANGED <<ui, cancelRequested, worker, pc, scanMode, fileQuality, locals,
                 ending, aggregator, cancels, calls, ghost, mergeCall, pureCall, billing>>

Next ==
  \/ \E q \in {"good", "poor"} : handleImageSelect(q)
  \/ hideQualityWarning
  \/ \E m \in {"quick", "full"} : setScanMode(m)
  \/ \E s \in Scans : extractText(s)
  \/ \E s \in Scans : BeginScan(s)
  \/ \E s \in Scans : CreateWorkerResolved(s)
  \/ \E s \in Scans : SetParametersResolved(s)
  \/ \E s \in Scans : CancelTerminateResolved(s)
  \/ \E s \in Scans : EngineRejects(s)
  \/ \E s \in Scans, d \in EngineData : RecognizeResolved(s, d)
  \/ \E s \in Scans : QuickScanCompletes(s)
  \/ \E s \in Scans : NextPass(s)
  \/ \E s \in Scans : FullScanCompletes(s)
  \/ cancelScan
  \/ CancelScanResumes

Spec == Init /\ [][Next]_vars

\* ------------------------------------------------------------------------
\* mergeScanResults as a function of its argument: every list of at most
\* MaxResults pass results over the sample OCR outputs
\* ------------------------------------------------------------------------
MaxResults == 3

Total200 == <<"T","o","t","a","l"," ","2","0","0">>

TotalDecimal == <<"T","o","t","a","l",":"," ","1",",","2","0","0",".","5","0">>

TotalHalf == <<"T","O","T","A","L"," ","$","0",".","5">>

CustomerGst == <<"T","o",":"," ","A","b","\n","G","S","T"," ","1","8">>

DateBillNo == <<"N","o",":"," ","7"," ","D","a","t","e"," ","5","/","1","/","2","4">>

NoFields == <<"x","y","z">>

W(t, c) == [text |-> t, confidence |-> c]

SampleResults ==
  { PassResult([text |-> Total100, confidence |-> 90,
                words |-> <<W(<<"1","0","0">>, 95)>>]),
    PassResult([text |-> Total200, confidence |-> 60, words |-> <<>>]),
    PassResult([text |-> TotalDecimal, confidence |-> 80,
                words |-> <<W(<<"T","o","t","a","l",":">>, 70),
                            W(<<"1",",","2","0","0",".","5","0">>, 40)>>]),
    PassResult([text |-> TotalHalf, confidence |-> 50,
                words |-> <<W(<<"$","0",".","5">>, 88)>>]),
    PassResult([text |-> CustomerGst, confidence |-> 75,
                words |-> <<W(<<"A","b">>, 91), W(<<"1","8">>, 66)>>]),
    PassResult([text |-> DateBillNo, confidence |-> 0,
                words |-> <<W(<<"7">>, 30)>>]),
    PassResult([text |-> NoFields, confidence |-> 20, words |-> <<>>]) }

RECURSIVE ResultLists(_)
ResultLists(n) ==
  IF n = 0 THEN {<<>>}
  ELSE LET shorter == ResultLists(n - 1)
       IN shorter \cup {Append(l, r) : l \in {x \in shorter : Len(x) = n - 1},
                                        r \in SampleResults}

InitMerge ==
  /\ InitScan
  /\ passResults \in ResultLists(MaxResults) \ {<<>>}
  /\ extractions = <<>>
  /\ merged = NoMerge
  /\ arg = NoCall
  /\ ret = NoCall

\* OCRModule.mergeScanResults(passResults)
MergeResults ==
  /\ extractions = <<>>
  /\ extractions' = AllExtractions(passResults, 1, fieldConfidences)
  /\ merged' = MergeExtractions(extractions', fieldConfidences)
  /\ fieldConfidences' = merged'.fc
  /\ UNCHANGED <<ui, flags, currentWorker, worker, pc, scanMode, fileQuality, locals,
                 ending, recordedBy, cancelling, calls, ghost, passResults, pureCall, billing>>

NextMerge == MergeResults

SpecMerge == InitMerge /\ [][NextMerge]_vars

\* ------------------------------------------------------------------------
\* Properties of the scan state machine (Spec)
\* ------------------------------------------------------------------------

\* C1: a scan that cancelScan found in flight (isScanning true) never calls
\* showOCRResults and never runs mergeScanResults
C1_CancelledScanShowsNothing ==
  \A s \in Scans : cancelHit[s] => ~shown[s] /\ ~mergeRun[s]

\* C2: a full scan during which no other scan was started and that was
\* cancelled between passes, before the next pass began recognition, does not
\* invoke mergeScanResults, shows no field and leaves no entry in the
\* confidence aggregator
C2_CancelBetweenPassesDiscards ==
  \A s \in Scans :
    (cancelEarly[s] /\ ~otherStarted[s])
      => /\ ~mergeRun[s]
         /\ ~shown[s]
         /\ \A f \in Fields : recordedBy[f] # s

\* C3: at most one scan is between "isScanning = true" and its finally block
C3_OneScanInFlight == Cardinality({s \in Scans : InFlight(s)}) <= 1

\* C4: a scan whose pending setParameters or recognize call lost its worker to
\* cancelScan does not end in the 'OCR processing failed' outcome
C4_CancelIsNotFailure ==
  \A s \in Scans : cancelKilled[s] => outcome[s] # "failed"

\* the scan s ended by an error of the engine
EngineFailed(s) == thrown[s] = "engine error"

\* C5: a scan in which createWorker, setParameters or recognize rejected has
\* ended with the failure outcome, showOCRResults was not called,
\* mergeScanResults was not run, the aggregator holds no entry recorded by
\* the scan, and isScanning is false when the scan ends
C5_EngineFailureIsTerminal ==
  /\ [](\A s \in Scans :
          EngineFailed(s)
            => /\ pc[s] = "end"
               /\ outcome[s] = "failed"
               /\ ~shown[s]
               /\ ~mergeRun[s]
               /\ \A f \in Fields : recordedBy[f] # s)
  /\ [][\A s \in Scans :
          (~EngineFailed(s) /\ EngineFailed(s)') => ~isScanning']_vars

\* C5 witness: a full scan failed in its second or third pass, after a pass
\* whose result was kept
C5_FailureAfterCompletedPass ==
  \E s \in Scans :
    /\ EngineFailed(s)
    /\ scanMode[s] = "full"
    /\ worker[<<s, 1>>] = "terminated"
    /\ worker[<<s, 2>>] # "none"

\* ------------------------------------------------------------------------
\* Properties of mergeScanResults (SpecMerge)
\* ------------------------------------------------------------------------

\* mergeScanResults has returned
Merged == extractions # <<>>

\* the value each pass extracted for field f, and those that are not empty
PerPass(f) == [i \in 1..Len(extractions) |-> extractions[i].billData[f]]

NonEmpty(f) == SelectSeq(PerPass(f), LAMBDA v : v # <<>>)

Occurrences(v, values) == Cardinality({i \in 1..Len(values) : values[i] = v})

\* the values of the highest frequency
Top(values) ==
  {v \in Range(values) :
     \A w \in Range(values) : Occurrences(w, values) <= Occurrences(v, values)}

FirstOccurrence(v, values) ==
  CHOOSE i \in 1..Len(values) : values[i] = v /\ \A j \in 1..(i - 1) : values[j] # v

\* C6: when two or more distinct non-empty values share the highest
\* frequency, the merged value is the one of them that occurs first
C6_TieGoesToEarliestPass ==
  Merged =>
    \A f \in Fields :
      LET values == NonEmpty(f)
      IN Cardinality(Top(values)) >= 2
           => /\ merged.billData[f] \in Top(values)
              /\ \A w \in Top(values) :
                   FirstOccurrence(merged.billData[f], values)
                     <= FirstOccurrence(w, values)

\* C7 as stated: for every field and every list of pass results the merged
\* value is a non-empty per-pass value of maximal frequency
C7_AlwaysAMostFrequentValue ==
  Merged => \A f \in Fields : merged.billData[f] \in Top(NonEmpty(f))

\* C7, amended: for every field that some pass has a non-empty value for, the
\* merged value is a non-empty per-pass value whose number of occurrences
\* among the non-empty values is maximal
C7_MostFrequentValue ==
  Merged =>
    \A f \in Fields :
      NonEmpty(f) # <<>>
        => /\ merged.billData[f] # <<>>
           /\ merged.billData[f] \in Top(NonEmpty(f))

\* C7 witness: three passes, two of which agree on the merged total while the
\* first pass has another one
C7_TwoAgainstOne ==
  /\ Merged
  /\ Len(NonEmpty("total")) = 3
  /\ Occurrences(merged.billData.total, NonEmpty("total")) = 2
  /\ NonEmpty("total")[1] # merged.billData.total

\* C8: the merged value of every field is the empty string or the value some
\* pass extracted for the field, and it is the empty string only when every
\* pass left the field empty
C8_MergedValueComesFromAPass ==
  Merged =>
    \A f \in Fields :
      /\ \/ merged.billData[f] = <<>>
         \/ \E i \in 1..Len(extractions) :
              extractions[i].billData[f] = merged.billData[f]
      /\ merged.billData[f] = <<>>
           => \A i \in 1..Len(extractions) : extractions[i].billData[f] = <<>>

\* C8 witness: a merge of passes that disagree on a field, while another
\* field is empty in all of them
C8_DisagreeingAndEmpty ==
  /\ Merged
  /\ \E f \in Fields : Cardinality(Range(NonEmpty(f))) >= 2
  /\ \E f \in Fields : NonEmpty(f) = <<>> /\ merged.billData[f] = <<>>

\* C9: the merged confidence of every field is the number of passes whose
\* value equals the merged value over the number of passes with a non-empty
\* value, and 0 when every pass left the field empty
C9_ConfidenceIsAgreement ==
  Merged =>
    \A f \in Fields :
      merged.fieldConfidences[f] =
        IF NonEmpty(f) = <<>> THEN Zero
        ELSE Rat(Occurrences(merged.billData[f], PerPass(f)), Len(NonEmpty(f)))

\* C9 witness: three passes of which two agree on one field (2/3), one pass
\* alone has another field (1/1), and no pass has a third field (0)
C9_PartialFullAndNoAgreement ==
  /\ Merged
  /\ \E f \in Fields : merged.fieldConfidences[f] = Rat(2, 3)
  /\ \E f \in Fields : Len(NonEmpty(f)) = 1 /\ merged.fieldConfidences[f] = Rat(1, 1)
  /\ \E f \in Fields : merged.fieldConfidences[f] = Zero

\* C10: the merge of a single result R has the five field values of
\* extractBillData(R.text), with confidence 1 for every non-empty field and 0
\* for every empty one
C10_SinglePassMergeIsExtraction ==
  (Merged /\ Len(passResults) = 1) =>
    /\ merged.billData = extractBillData(passResults[1].text)
    /\ \A f \in Fields :
         merged.fieldConfidences[f] =
           IF extractBillData(passResults[1].text)[f] # <<>> THEN Rat(1, 1) ELSE Zero

\* C10 witness: the merge of a single result with a field that is found and a
\* field that is not
C10_SinglePassMerged ==
  /\ Merged
  /\ Len(passResults) = 1
  /\ \E f \in Fields : merged.billData[f] # <<>>
  /\ \E f \in Fields : merged.billData[f] = <<>>

\* ------------------------------------------------------------------------
\* ConfidenceModule under every sequence of reset and setFieldConfidence
\* calls its two callers can make (SpecConfidence)
\* ------------------------------------------------------------------------
MaxWords == 3

\* a field value and OCR words that match it
SampleValue == <<"1","0","0">>

WordConfidences == {69, 70}

RECURSIVE WordLists(_)
WordLists(n) ==
  IF n = 0 THEN {<<>>}
  ELSE LET shorter == WordLists(n - 1)
       IN shorter \cup {Append(l, W(SampleValue, c)) :
                          l \in {x \in shorter : Len(x) = n - 1}, c \in WordConfidences}

\* OCR results: with and without an overall confidence, with and without words
OcrSamples ==
  {[words |-> ws, confidence |-> c] :
     ws \in WordLists(MaxWords), c \in {NoConfidence, 0, 50, 100}}

\* the confidences extractBillDataWithConfidence passes to setFieldConfidence
EstimatorConfidences ==
  {getFieldConfidence(v, o) : v \in {<<>>, SampleValue}, o \in OcrSamples}

\* the confidences mergeScanResults passes to setFieldConfidence
MergeRatios ==
  {ConsistentShare([i \in 1..n |-> IF i <= a THEN SampleValue ELSE <<"7">>],
                   SampleValue) : n \in 0..passes, a \in 0..passes}

\* ConfidenceModule.reset()
ResetConfidence ==
  /\ fieldConfidences' = reset
  /\ UNCHANGED <<ui, flags, currentWorker, worker, pc, scanMode, fileQuality, locals,
                 ending, recordedBy, cancelling, calls, ghost, mergeCall, pureCall, billing>>

\* ConfidenceModule.setFieldConfidence(fieldName, confidence, value)
StoreConfidence(fieldName, confidence, value) ==
  /\ fieldConfidences' = setFieldConfidence(fieldConfidences, fieldName, confidence, value)
  /\ UNCHANGED <<ui, flags, currentWorker, worker, pc, scanMode, fileQuality, locals,
                 ending, recordedBy, cancelling, calls, ghost, mergeCall, pureCall, billing>>

NextConfidence ==
  \/ ResetConfidence
  \/ \E f \in Fields, c \in EstimatorConfidences \cup MergeRatios :
       StoreConfidence(f, c, IF c = Zero THEN <<>> ELSE SampleValue)

SpecConfidence == Init /\ [][NextConfidence]_vars

\* C11: every entry of the aggregator has a stored confidence between 0 and
\* 1, and its needsReview says whether that stored confidence is below 0.7
C11_StoredConfidenceDecidesReview ==
  \A f \in Fields :
    fieldConfidences[f].has
      => /\ ~RatLess(fieldConfidences[f].confidence, Zero)
         /\ ~RatLess(Rat(1, 1), fieldConfidences[f].confidence)
         /\ fieldConfidences[f].needsReview
              <=> RatLess(fieldConfidences[f].confidence, Rat(7, 10))

\* ------------------------------------------------------------------------
\* ImageQualityModule.  The pixel data of an image enter the sub-checks
\* through the sums their sampling loops accumulate; imageData holds width
\* and height and, of the data, the variance of the Laplacian samples (used
\* when there is a sample) and the least, greatest and average gray of the
\* brightness samples (every fourth pixel; there is always one).
\* ------------------------------------------------------------------------
\* a wrong resolution check: more than the minimum is asked for
checkResolutionStrict(width, height) ==
  [width |-> width, height |-> height, totalPixels |-> width * height,
   adequate |-> width * height > 500 * 500,
   recommended |-> width * height > 1000 * 1000]

\* ImageQualityModule.checkResolution
checkResolution(width, height) ==
  [width |-> width, height |-> height, totalPixels |-> width * height,
   adequate |-> width * height >= 500 * 500,
   recommended |-> width * height >= 1000 * 1000]

\* for (let v = 1; v < size - 1; v += 2): the values v takes
OddInside(size) == {v \in 1..(size - 2) : v % 2 = 1}

\* count of detectBlur: one Laplacian sample per (x, y) of the two loops
BlurSampleCount(width, height) ==
  Cardinality(OddInside(width)) * Cardinality(OddInside(height))

\* variance / count, then the threshold: 0 / 0 is NaN, and every comparison
\* with NaN is false
BlurVerdict(count, variance) ==
  IF count = 0
  THEN [variance |-> "NaN", isBlurry |-> FALSE, adequate |-> FALSE]
  ELSE [variance |-> variance, isBlurry |-> variance < 100,
        adequate |-> variance >= 100]

\* ImageQualityModule.detectBlur
detectBlur(imageData) ==
  BlurVerdict(BlurSampleCount(imageData.width, imageData.height), imageData.variance)

\* ImageQualityModule.checkBrightness
checkBrightness(imageData) ==
  [average |-> imageData.avg,
   adequate |-> imageData.avg >= 50 /\ imageData.avg <= 200,
   issue |-> IF imageData.avg < 50 THEN "too dark"
             ELSE IF imageData.avg > 200 THEN "too bright" ELSE "null"]

\* ImageQualityModule.checkContrast
checkContrast(imageData) ==
  [value |-> imageData.max - imageData.min,
   adequate |-> imageData.max - imageData.min >= 50]

\* the larger of the two instead of the smaller
RatMax(a, b) == IF RatLess(b, a) THEN a ELSE b

RatMin(a, b) == IF RatLess(b, a) THEN b ELSE a

\* the return value of estimateTextSize for the estimated DPI
TextSize(estimatedDPI, width) ==
  [estimatedDPI |-> estimatedDPI,
   minTextSizePixels |-> Rat(10 * estimatedDPI.n, 72 * estimatedDPI.d),
   adequate |-> ~RatLess(estimatedDPI, Rat(150, 1)) /\ width >= 1000]

\* ImageQualityModule.estimateTextSize: 8.27 and 11.69 inches
estimateTextSize(width, height) ==
  TextSize(RatMin(Rat(width * 100, 827), Rat(height * 100, 1169)), width)

Push(cond, issue) == IF cond THEN <<issue>> ELSE <<>>

\* the issues of analyzeQuality, in the order of its if statements
Issues(quality) ==
  Push(~quality.resolution.adequate, "low resolution")
  \o Push(quality.blur.isBlurry, "blurry")
  \o Push(~quality.brightness.adequate, quality.brightness.issue)
  \o Push(~quality.contrast.adequate, "low contrast")
  \o Push(~quality.textSize.adequate, "text too small")

\* a wrong verdict: one issue is let pass
OverallLenient(issues) == IF Len(issues) > 1 THEN "poor" ELSE "good"

\* if (issues.length > 0) quality.overall = 'poor'
Overall(issues) == IF Len(issues) > 0 THEN "poor" ELSE "good"

\* quality with overall and issues set; issues is <<>> where the code leaves
\* the property out
Verdict(quality, issues) ==
  [resolution |-> quality.resolution, blur |-> quality.blur,
   brightness |-> quality.brightness, contrast |-> quality.contrast,
   textSize |-> quality.textSize, overall |-> Overall(issues), issues |-> issues]

WithIssues(quality) == Verdict(quality, Issues(quality))

\* ImageQualityModule.analyzeQuality, from getImageData on
analyzeQuality(imageData) ==
  WithIssues([resolution |-> checkResolution(imageData.width, imageData.height),
              blur |-> detectBlur(imageData),
              brightness |-> checkBrightness(imageData),
              contrast |-> checkContrast(imageData),
              textSize |-> estimateTextSize(imageData.width, imageData.height)])

\* image sizes around the thresholds of the checks, and very small ones
Widths == {1, 2, 3, 500, 1000, 1240, 1241, 2000}

Heights == {1, 2, 3, 500, 1000, 1753, 1754, 2000}

Variances == {0, 99, 100, 400}

Grays == {0, 49, 50, 200, 201}

Images ==
  {[width |-> w, height |-> h, variance |-> v, min |-> lo, max |-> hi, avg |-> a] :
     w \in Widths, h \in Heights, v \in Variances,
     lo \in Grays, hi \in Grays, a \in Grays}

InitQuality ==
  /\ InitScan
  /\ passResults = <<>>
  /\ extractions = <<>>
  /\ merged = NoMerge
  /\ arg \in {Call(i) : i \in {j \in Images : j.min <= j.avg /\ j.avg <= j.max}}
  /\ ret = NoCall

\* ImageQualityModule.analyzeQuality(arg) resolves
AnalyzeQuality ==
  /\ ret = NoCall
  /\ ret' = Call(analyzeQuality(arg.value))
  /\ UNCHANGED <<scanVars, mergeCall, arg, billing>>

NextQuality == AnalyzeQuality

SpecQuality == InitQuality /\ [][NextQuality]_vars

\* C12: the overall verdict of a quality report is 'poor' if and only if
\* its list of issues is not empty, and 'good' exactly when it is empty
C12_PoorIffIssues ==
  ret.made =>
    /\ ret.value.overall = "poor" <=> ret.value.issues # <<>>
    /\ ret.value.overall = "good" <=> ret.value.issues = <<>>

\* C12 witness: a report without issues, on an image that passes all checks
C12_GoodReport ==
  /\ ret.made
  /\ ret.value.overall = "good"
  /\ ret.value.issues = <<>>
  /\ ret.value.blur.adequate

\* the issues the five sub-checks call for: one per check that is not adequate
Failing(quality) ==
  Push(~quality.resolution.adequate, "low resolution")
  \o Push(~quality.blur.adequate, "blurry")
  \o Push(~quality.brightness.adequate, quality.brightness.issue)
  \o Push(~quality.contrast.adequate, "low contrast")
  \o Push(~quality.textSize.adequate, "text too small")

\* C13: a report is 'poor' whenever one of the five sub-checks is not
\* adequate, and its issues are one entry per check that is not adequate, in
\* the order resolution, blur, brightness, contrast, text size
C13_OneIssuePerFailingCheck ==
  ret.made =>
    /\ Failing(ret.value) # <<>> => ret.value.overall = "poor"
    /\ ret.value.issues = Failing(ret.value)

\* C14: the resolution is adequate iff width * height >= 250000 and
\* recommended iff width * height >= 1000000, and an image of fewer than
\* 250000 pixels is 'poor'
C14_ResolutionThresholds ==
  ret.made =>
    /\ ret.value.resolution.adequate
         <=> arg.value.width * arg.value.height >= 250000
    /\ ret.value.resolution.recommended
         <=> arg.value.width * arg.value.height >= 1000000
    /\ arg.value.width * arg.value.height < 250000
         => ~ret.value.resolution.adequate /\ ret.value.overall = "poor"

\* C14 witness: a report on an image of exactly 250000 pixels
C14_ExactlyTheMinimum ==
  /\ ret.made
  /\ arg.value.width * arg.value.height = 250000
  /\ ret.value.resolution.adequate
  /\ ~ret.value.resolution.recommended

\* ------------------------------------------------------------------------
\* extractBillData as a function of its text (SpecExtract).  Every input is
\* a text put together from parts; expect is the value the parts stand for
\* in the field the text is about.
\* ------------------------------------------------------------------------
Sample(kind, field, text, expect) ==
  [kind |-> kind, field |-> field, text |-> text, expect |-> expect]

Pad2(digits) == IF Len(digits) = 1 THEN <<"0">> \o digits ELSE digits

Year4(digits) == IF Len(digits) = 2 THEN <<"2","0">> \o digits ELSE digits

IsoDate(y, m, d) == Year4(y) \o <<"-">> \o Pad2(m) \o <<"-">> \o Pad2(d)

DateLabel == <<"D","a","t","e",":"," ">>

DatedLabel == <<"D","a","t","e","d"," ">>

Separators == {<<"-">>, <<"/">>}

Months == {<<"1">>, <<"0","1">>, <<"1","2">>}

Days == {<<"5">>, <<"0","5">>, <<"2","5">>}

Years == {<<"2","4">>, <<"2","0","2","4">>}

\* texts whose only date is year-first
YearFirstTexts ==
  {Sample("yearFirst", "date", l \o <<"2","0","2","4">> \o sep \o m \o sep \o d,
          IsoDate(<<"2","0","2","4">>, m, d)) :
     l \in {<<>>, DateLabel}, sep \in Separators, m \in Months, d \in Days}

\* texts whose only date is day-first
DayFirstTexts ==
  {Sample("dayFirst", "date", l \o d \o sep \o m \o sep \o y, IsoDate(y, m, d)) :
     l \in {<<>>, DateLabel, DatedLabel}, sep \in Separators, m \in Months,
     d \in Days, y \in Years}

\* texts with a day-first date, then a labelled day-first date
LabelledSecondTexts ==
  {Sample("labelledSecond", "date",
          <<"1","/","2","/","2","3"," ">> \o l \o d \o sep \o m \o sep \o y,
          IsoDate(y, m, d)) :
     l \in {DateLabel, DatedLabel}, sep \in Separators, m \in Months,
     d \in Days, y \in Years}

\* numerals: the token, its value n / d and the decimal string of the value
Numeral(token, n, d, string) == [token |-> token, n |-> n, d |-> d, string |-> string]

Numerals ==
  { Numeral(<<"5","0">>, 50, 1, <<"5","0">>),
    Numeral(<<"1","9","9","9">>, 1999, 1, <<"1","9","9","9">>),
    Numeral(<<"3">>, 3, 1, <<"3">>),
    Numeral(<<"0",".","5">>, 1, 2, <<"0",".","5">>),
    Numeral(<<"1",",","2","0","0",".","5","0">>, 2401, 2,
            <<"1","2","0","0",".","5">>) }

MaxTokens == 3

RECURSIVE NumeralLists(_)
NumeralLists(n) ==
  IF n = 0 THEN {<<>>}
  ELSE LET shorter == NumeralLists(n - 1)
       IN shorter \cup {Append(l, t) : l \in {x \in shorter : Len(x) = n - 1},
                                        t \in Numerals}

RECURSIVE Join(_, _)
Join(tokens, sep) ==
  IF Len(tokens) = 1 THEN tokens[1].token
  ELSE tokens[1].token \o sep \o Join(Tail(tokens), sep)

\* the numeral of the greatest value
Greatest(tokens) ==
  CHOOSE t \in Range(tokens) : \A u \in Range(tokens) : u.n * t.d <= t.n * u.d

\* texts of numbers without a label
NumberTexts ==
  {Sample("numbers", "total", Join(l, sep), Greatest(l).string) :
     l \in NumeralLists(MaxTokens) \ {<<>>},
     sep \in {<<" ">>, <<" ","x"," ","$">>}}

\* texts without any number
PlainTexts ==
  {Sample("plain", "total", t, <<>>) :
     t \in {<<>>, <<"x","y","z">>, <<"a","b"," ","\n","c">>, <<"a",","," ","b">>}}

\* texts with a bill number and a customer
HeaderTexts ==
  {Sample("header", "billNo",
          <<"B","i","l","l"," ","N","o",":"," ">> \o n \o <<"\n">>
            \o <<"C","u","s","t","o","m","e","r",":"," ">> \o c,
          n) :
     n \in {<<"A","1","2">>, <<"7">>}, c \in {<<"R","a","m">>, <<"K"," ","S">>}}

GstLabels ==
  { <<"G","S","T">>, <<"T","a","x">>, <<"g","s","t">>,
    <<"G","S","T"," ","A","m","o","u","n","t">> }

TotalLabels ==
  { <<"T","o","t","a","l">>, <<"T","O","T","A","L">>,
    <<"G","r","a","n","d"," ","T","o","t","a","l">>,
    <<"A","m","o","u","n","t"," ","P","a","y","a","b","l","e">>,
    <<"T","o","t","a","l"," ","A","m","o","u","n","t">> }

\* amounts as bills print them, and the same without thousands separators
Amount(token, plain) == [token |-> token, plain |-> plain]

Amounts ==
  { Amount(<<"1","0","0">>, <<"1","0","0">>),
    Amount(<<"1",",","2","0","0",".","5","0">>, <<"1","2","0","0",".","5","0">>),
    Amount(<<"0",".","5">>, <<"0",".","5">>),
    Amount(<<"1",",","0","0",",","0","0","0">>, <<"1","0","0","0","0","0">>),
    Amount(<<"1","8",".","0">>, <<"1","8",".","0">>) }

LabelTexts(kind, field, labels) ==
  {Sample(kind, field, l \o sep \o cur \o a.token \o after, a.plain) :
     l \in labels, sep \in {<<>>, <<" ">>, <<":"," ">>},
     cur \in {<<>>, <<"$">>, <<Rupee>>, <<"$"," ">>}, a \in Amounts,
     after \in {<<>>, <<"\n","x">>}}

Texts ==
  YearFirstTexts \cup DayFirstTexts \cup LabelledSecondTexts \cup NumberTexts
  \cup PlainTexts \cup HeaderTexts \cup LabelTexts("gstLabel", "gst", GstLabels)
  \cup LabelTexts("totalLabel", "total", TotalLabels)

InitExtract ==
  /\ InitScan
  /\ passResults = <<>>
  /\ extractions = <<>>
  /\ merged = NoMerge
  /\ arg \in {Call(t) : t \in Texts}
  /\ ret = NoCall

\* DataExtractionModule.extractBillData(arg.text) returns
ExtractBillData ==
  /\ ret = NoCall
  /\ ret' = Call(extractBillData(arg.value.text))
  /\ UNCHANGED <<scanVars, mergeCall, arg, billing>>

NextExtract == ExtractBillData

SpecExtract == InitExtract /\ [][NextExtract]_vars

\* C15: a text whose only date is year-first (4-digit year, 1- or 2-digit
\* month and day, labelled or not) gets that year, month and day, month and
\* day zero-padded
C15_YearFirstDate ==
  (ret.made /\ arg.value.kind = "yearFirst") => ret.value.date = arg.value.expect

\* C16: a text whose first date is day-first (1- or 2-digit day and month,
\* 2- or 4-digit year) gets YYYY-MM-DD, day and month zero-padded and a
\* 2-digit year prefixed with 20; a labelled date wins over an earlier
\* date without a label
C16_DayFirstDate ==
  (ret.made /\ arg.value.kind \in {"dayFirst", "labelledSecond"})
    => ret.value.date = arg.value.expect

\* C16 witness: a 2-digit year and a 1-digit day were normalised
C16_ShortYearAndDay ==
  /\ ret.made
  /\ arg.value.kind = "dayFirst"
  /\ Len(arg.value.text) = 6
  /\ Len(ret.value.date) = 10

\* C16 witness for the label: the date after the label was taken
C16_LabelledDateTaken ==
  /\ ret.made
  /\ arg.value.kind = "labelledSecond"
  /\ ret.value.date # <<"2","0","2","3","-","0","2","-","0","1">>

\* C17: when no total label rule matches, the total is the decimal string
\* of the largest number of the text, '' when the text has no number
C17_TotalIsLargestNumber ==
  (ret.made /\ arg.value.kind \in {"numbers", "plain"})
    => ret.value.total = arg.value.expect

\* C17 witness: three numbers, the largest neither first nor last
C17_LargestInTheMiddle ==
  /\ ret.made
  /\ arg.value.kind = "numbers"
  /\ arg.value.text = <<"5","0"," ","1","9","9","9"," ","3">>
  /\ ret.value.total = <<"1","9","9","9">>

\* C17 witness for the empty case: no number, no total
C17_NoNumberNoTotal ==
  ret.made /\ arg.value.kind = "plain" /\ arg.value.text # <<>> /\ ret.value.total = <<>>

\* C18: a GST or total label followed (optional spaces, colon, one currency
\* symbol) by an amount gives the field the amount without thousands
\* separators, fraction digits kept: only digits and at most one point
C18_LabelledAmount ==
  (ret.made /\ arg.value.kind \in {"gstLabel", "totalLabel"})
    => /\ ret.value[arg.value.field] = arg.value.expect
       /\ Range(ret.value[arg.value.field]) \subseteq Digit \cup {"."}
       /\ Len(SelectSeq(ret.value[arg.value.field], LAMBDA c : c = ".")) <= 1

\* C18 witness: separators removed, the fraction kept with its zero
C18_SeparatorsRemoved ==
  /\ ret.made
  /\ arg.value.kind = "totalLabel"
  /\ includes(arg.value.text, <<"1",",","2","0","0",".","5","0">>)
  /\ ret.value.total = <<"1","2","0","0",".","5","0">>

\* C18 witness for GST: the amount after a GST label and a currency symbol
C18_GstAfterCurrency ==
  /\ ret.made
  /\ arg.value.kind = "gstLabel"
  /\ includes(arg.value.text, <<Rupee>>)
  /\ ret.value.gst = <<"1","0","0","0","0","0">>

\* no pattern of the list matches the text
NoRule(patterns, text) == \A k \in DOMAIN patterns : ~Search(patterns[k], text).ok

HeaderPatterns ==
  [billNo |-> billNoPatterns, date |-> datePatterns, customer |-> customerPatterns,
   gst |-> gstPatterns]

AllChars == UNION {Range(t.text) : t \in Texts}

\* C19: for every text, the empty one included, extractBillData returns the
\* five fields as strings, and billNo, date, customer and gst are '' when
\* none of their patterns matches
C19_MissesAreEmptyStrings ==
  ret.made =>
    /\ DOMAIN ret.value = Fields
    /\ \A f \in Fields : ret.value[f] \in Seq(AllChars)
    /\ \A f \in DOMAIN HeaderPatterns :
         NoRule(HeaderPatterns[f], arg.value.text) => ret.value[f] = <<>>

\* C19 witness: the empty text was extracted
C19_EmptyText ==
  /\ ret.made
  /\ arg.value.text = <<>>
  /\ \A f \in Fields : ret.value[f] = <<>>

\* C19 witness: a text with a date and no other field
C19_OnlyADate ==
  /\ ret.made
  /\ arg.value.kind = "dayFirst"
  /\ ret.value.date # <<>>
  /\ \A f \in {"billNo", "customer", "gst"} :
       NoRule(HeaderPatterns[f], arg.value.text) /\ ret.value[f] = <<>>

\* ------------------------------------------------------------------------
\* The estimator getFieldConfidence as a function of a field value and an
\* OCR result (SpecEstimate)
\* ------------------------------------------------------------------------
MaxEstimateWords == 2

FieldValueSamples == {<<>>, <<" ">>, SampleValue, <<"A","b">>}

\* words that are the value, hold it in another case, are unrelated, or empty
WordSamples ==
  {W(t, c) : t \in {SampleValue, <<"a","B","c">>, <<"z","z">>, <<>>}, c \in {0, 80}}

RECURSIVE EstimateWordLists(_)
EstimateWordLists(n) ==
  IF n = 0 THEN {<<>>}
  ELSE LET shorter == EstimateWordLists(n - 1)
       IN shorter \cup {Append(l, w) : l \in {x \in shorter : Len(x) = n - 1},
                                        w \in WordSamples}

OverallConfidences == {NoConfidence, 0, 1, 50, 100}

InitEstimate ==
  /\ InitScan
  /\ passResults = <<>>
  /\ extractions = <<>>
  /\ merged = NoMerge
  /\ arg \in {Call([fieldValue |-> v, ocrData |-> [words |-> ws, confidence |-> c]]) :
                v \in FieldValueSamples, ws \in EstimateWordLists(MaxEstimateWords),
                c \in OverallConfidences}
  /\ ret = NoCall

\* getFieldConfidence(fieldValue, fieldName) returns
GetFieldConfidence ==
  /\ ret = NoCall
  /\ ret' = Call(getFieldConfidence(arg.value.fieldValue, arg.value.ocrData))
  /\ UNCHANGED <<scanVars, mergeCall, arg, billing>>

NextEstimate == GetFieldConfidence

SpecEstimate == InitEstimate /\ [][NextEstimate]_vars

\* C20: for a non-empty value that no word matches, the estimate is the
\* overall confidence divided by 100 whenever the OCR result has one (any
\* value from 0 to 100, 0 included), and 0.5 only when it has none
C20_FallbackIsOverallConfidence ==
  (/\ ret.made
   /\ trim(arg.value.fieldValue) # <<>>
   /\ MatchingWords(arg.value.ocrData.words, arg.value.fieldValue) = <<>>)
    => ret.value = IF arg.value.ocrData.confidence = NoConfidence
                   THEN Rat(1, 2)
                   ELSE Rat(arg.value.ocrData.confidence, 100)

\* the positions of the words whose text, case ignored, is part of the value
\* or holds the value
MatchingAt(words, value) ==
  {i \in DOMAIN words :
     \/ includes(toLowerCase(value), toLowerCase(words[i].text))
     \/ includes(toLowerCase(words[i].text), toLowerCase(value))}

RECURSIVE SumAt(_, _)
SumAt(words, at) ==
  IF at = {} THEN 0
  ELSE LET i == CHOOSE j \in at : TRUE
       IN words[i].confidence + SumAt(words, at \ {i})

\* C21: an empty value gets confidence 0; a non-empty value that some word
\* matches gets the mean of exactly the matching words' confidences divided
\* by 100, a number from 0 to 1
C21_MeanOfMatchingWords ==
  ret.made =>
    /\ arg.value.fieldValue = <<>> => ret.value = Zero
    /\ (/\ trim(arg.value.fieldValue) # <<>>
        /\ MatchingAt(arg.value.ocrData.words, arg.value.fieldValue) # {})
         => /\ ret.value =
                 Rat(SumAt(arg.value.ocrData.words,
                           MatchingAt(arg.value.ocrData.words, arg.value.fieldValue)),
                     100 * Cardinality(MatchingAt(arg.value.ocrData.words,
                                                  arg.value.fieldValue)))
            /\ ~RatLess(ret.value, Zero)
            /\ ~RatLess(Rat(1, 1), ret.value)

\* C21 witness: of two words one matches (it holds the value in another
\* case) and its confidence alone is the estimate
C21_OnlyTheMatchingWordCounts ==
  /\ ret.made
  /\ arg.value.fieldValue = <<"A","b">>
  /\ arg.value.ocrData.words = <<W(<<"z","z">>, 0), W(<<"a","B","c">>, 80)>>
  /\ ret.value = Rat(4, 5)

\* ------------------------------------------------------------------------
\* ConfidenceModule.getOverallConfidence (SpecSummary): the aggregator is
\* filled as in SpecConfidence and its summary is read once
\* ------------------------------------------------------------------------
\* Object.keys(this.fieldConfidences)
RecordedFields(fc) == {f \in Fields : fc[f].has}

\* totalConfidence after the forEach
RECURSIVE TotalConfidence(_, _)
TotalConfidence(fc, k) ==
  IF k > Len(FieldSeq) THEN Zero
  ELSE IF fc[FieldSeq[k]].has
       THEN RatAdd(fc[FieldSeq[k]].confidence, TotalConfidence(fc, k + 1))
       ELSE TotalConfidence(fc, k + 1)

\* the object returned for a non-empty aggregator; lowConfidenceFields is
\* the array as the set of its elements
Summary(total, fields, low) ==
  [average |-> Round2(Rat(total.n, total.d * Cardinality(fields))),
   lowConfidenceFields |-> low,
   needsReview |-> low # {},
   totalFields |-> Cardinality(fields)]

\* ConfidenceModule.getOverallConfidence, on the object fc; the early return
\* has no totalFields
getOverallConfidence(fc) ==
  IF RecordedFields(fc) = {}
  THEN [average |-> Zero, lowConfidenceFields |-> {}, needsReview |-> FALSE]
  ELSE Summary(TotalConfidence(fc, 1), RecordedFields(fc),
               {f \in RecordedFields(fc) : fc[f].needsReview})

\* getOverallConfidence() returns; ret keeps the aggregator it was read from
GetOverallConfidence ==
  /\ ret = NoCall
  /\ ret' = Call([of |-> fieldConfidences,
                  summary |-> getOverallConfidence(fieldConfidences)])
  /\ UNCHANGED <<scanVars, mergeCall, arg, billing>>

NextSummary ==
  \/ ret = NoCall /\ NextConfidence
  \/ GetOverallConfidence

SpecSummary == Init /\ [][NextSummary]_vars

\* the mean of the confidences recorded in fc, 0 when there is none
MeanRecorded(fc) ==
  IF RecordedFields(fc) = {} THEN Zero
  ELSE Rat(TotalConfidence(fc, 1).n,
           TotalConfidence(fc, 1).d * Cardinality(RecordedFields(fc)))

\* C22: the summary's average is the mean of the recorded confidences (0
\* when none is recorded), lowConfidenceFields is the set of the recorded
\* fields that need review, needsReview says whether that set is non-empty,
\* and totalFields is the number of recorded fields
C22_SummaryOfRecordedEntries ==
  ret.made =>
    /\ ret.value.summary.average = MeanRecorded(ret.value.of)
    /\ ret.value.summary.lowConfidenceFields
         = {f \in Fields : ret.value.of[f].has /\ ret.value.of[f].needsReview}
    /\ ret.value.summary.needsReview
         <=> (\E f \in Fields : ret.value.of[f].has /\ ret.value.of[f].needsReview)
    /\ "totalFields" \in DOMAIN ret.value.summary
    /\ ret.value.summary.totalFields
         = Cardinality({f \in Fields : ret.value.of[f].has})

\* C23: once a scan has ended, whether it completed, failed in the engine
\* or was cancelled, no worker it created is live, and currentWorker does
\* not refer to a live worker of it
C23_EndedScanLeavesNoLiveWorker ==
  \A s \in Scans :
    pc[s] = "end"
      => /\ \A w \in Workers : w[1] = s => worker[w] # "live"
         /\ (currentWorker # null /\ currentWorker[1] = s)
              => worker[currentWorker] # "live"

\* ------------------------------------------------------------------------
\* The scan state machine with an engine whose answer tells the passes
\* apart (SpecPasses): the p-th recognize of a scan returns PassData(p)
\* ------------------------------------------------------------------------
PassData(p) ==
  IF p = 1
  THEN [text |-> Total100, confidence |-> 90,
        words |-> <<[text |-> <<"1","0","0">>, confidence |-> 95]>>]
  ELSE IF p = 2
       THEN [text |-> Total200, confidence |-> 60, words |-> <<>>]
       ELSE [text |-> TotalHalf, confidence |-> 50,
             words |-> <<[text |-> <<"$","0",".","5">>, confidence |-> 88]>>]

NextPasses ==
  \/ \E q \in {"good", "poor"} : handleImageSelect(q)
  \/ hideQualityWarning
  \/ \E m \in {"quick", "full"} : setScanMode(m)
  \/ \E s \in Scans : extractText(s)
  \/ \E s \in Scans : BeginScan(s)
  \/ \E s \in Scans : CreateWorkerResolved(s)
  \/ \E s \in Scans : SetParametersResolved(s)
  \/ \E s \in Scans : CancelTerminateResolved(s)
  \/ \E s \in Scans : EngineRejects(s)
  \/ \E s \in Scans : RecognizeResolved(s, PassData(pass[s] + 1))
  \/ \E s \in Scans : QuickScanCompletes(s)
  \/ \E s \in Scans : NextPass(s)
  \/ \E s \in Scans : FullScanCompletes(s)
  \/ cancelScan
  \/ CancelScanResumes

SpecPasses == Init /\ [][NextPasses]_vars

\* scan s is a full scan that ran to its end without failure and without a
\* cancelScan while it was in flight
CompletedFullScan(s) ==
  /\ pc[s] = "end"
  /\ outcome[s] = "done"
  /\ scanMode[s] = "full"
  /\ ~cancelHit[s]

\* C24: in a scan the worker of a pass is terminated before the worker of
\* the next pass is created, so a scan has at most one live worker; a full
\* scan without cancellation or failure runs mergeScanResults once, on the
\* results of its three passes in the order pass 1, 2, 3
C24_PassesInOrder ==
  /\ [](\A s \in Scans :
          /\ \A p \in 1..(passes - 1) :
               worker[<<s, p + 1>>] # "none" => worker[<<s, p>>] = "terminated"
          /\ Cardinality({w \in Workers : w[1] = s /\ worker[w] = "live"}) <= 1
          /\ CompletedFullScan(s) => mergeRun[s])
  /\ [][/\ \A s \in Scans :
             /\ (~CompletedFullScan(s) /\ CompletedFullScan(s)')
                  => /\ ~mergeRun[s] /\ mergeRun'[s]
                     /\ passResults' = <<PassResult(PassData(1)),
                                         PassResult(PassData(2)),
                                         PassResult(PassData(3))>>
             /\ mergeRun[s] => mergeRun'[s]
        /\ passResults' # passResults
             => \E s \in Scans : ~mergeRun[s] /\ mergeRun'[s] /\ pc'[s] = "end"]_vars

\* C24 witness: a full scan completed without cancellation or failure, its
\* three workers terminated and the merge run on three results
C24_ThreePassesMerged ==
  \E s \in Scans :
    /\ CompletedFullScan(s)
    /\ \A p \in 1..passes : worker[<<s, p>>] = "terminated"
    /\ mergeRun[s]
    /\ Len(passResults) = passes
    /\ passResults[1] # passResults[2]

\* C25: a scan resets the aggregator before it records anything, and when
\* the results of a scan are shown every entry of the aggregator was
\* recorded by that scan and, for a full scan, holds the confidence of the
\* merge (to two decimals), not that of a pass
C25_ShownEntriesAreTheScansOwn ==
  [][\A s \in Scans :
       /\ (pc[s] = "quality" /\ pc'[s] = "create") => fieldConfidences' = reset
       /\ \A f \in Fields :
            (recordedBy'[f] = s /\ recordedBy[f] # s)
              => pc[s] \notin {"idle", "quality"}
       /\ (~shown[s] /\ shown'[s])
            => \A f \in Fields :
                 /\ fieldConfidences'[f].has
                 /\ recordedBy'[f] = s
                 /\ scanMode[s] = "full"
                      => /\ fieldConfidences'[f].confidence
                              = Round2(ConsistentShare(
                                  FieldValues(f, extractions'), merged'.billData[f]))
                         /\ fieldConfidences'[f].value = merged'.billData[f]]_vars

\* C25 witness: the results of a full scan are shown, its passes disagreed
\* on the total, and the entry holds the share of agreeing passes (1 of 3)
\* while pass 3 had recorded 0.88
C25_MergedConfidenceShown ==
  \E s \in Scans :
    /\ shown[s]
    /\ scanMode[s] = "full"
    /\ pc[s] = "end"
    /\ recordedBy["total"] = s
    /\ extractions # <<>>
    /\ extractions[3].fieldConfidences["total"] = Rat(88, 100)
    /\ fieldConfidences["total"].confidence = Rat(33, 100)

\* ------------------------------------------------------------------------
\* Saving (SpecSave): scans run one at a time and to completion; the user
\* types a bill number, saves (twice, possibly before the first save has
\* ended) or clears the form.  A save is a coroutine k of DataModule.saveBill
\* ------------------------------------------------------------------------
scanRest ==
  <<imageQuality, qualityWarning, currentScanMode, flags, currentWorker, worker, pc,
    scanMode, fileQuality, locals, ending, recordedBy, cancelling, calls, ghost>>

\* what the engine returns in SpecSave: a bill without and with a bill number
ScanSamples ==
  EngineData \cup {[text |-> DateBillNo, confidence |-> 80,
                    words |-> <<W(<<"7">>, 95)>>]}

\* a quick or full scan from ConfidenceModule.reset() to showOCRResults
ScanResult(mode, d) ==
  IF mode = "quick"
  THEN extractBillDataWithConfidence(d.text, d, reset)
  ELSE mergeScanResults(<<PassResult(d), PassResult(d), PassResult(d)>>, reset)

\* the aggregator and the bill number of the form after each such scan
ScanOutcomes ==
  {[fc |-> ScanResult(mode, d).fc, billNo |-> ScanResult(mode, d).billData.billNo] :
     mode \in {"quick", "full"}, d \in ScanSamples}

\* extractText runs to its end and shows the results in the form
ScanShown(o) ==
  /\ currentImageFile
  /\ fieldConfidences' = o.fc
  /\ form' = [shown |-> TRUE, billNo |-> o.billNo]
  /\ consumed' = FALSE
  /\ UNCHANGED <<currentImageFile, scanRest, mergeCall, pureCall, store, nextId, save>>

\* the user edits the bill number of the results card
TypeBillNo(b) ==
  /\ form.shown
  /\ form.billNo # b
  /\ form' = [form EXCEPT !.billNo = b]
  /\ UNCHANGED <<currentImageFile, scanRest, fieldConfidences, mergeCall, pureCall,
                 store, nextId, save, consumed>>

\* UIModule.clearForm
ClearedForm == [shown |-> FALSE, billNo |-> <<>>]

\* the remove-image and re-upload buttons: UIModule.clearForm()
clearForm ==
  /\ form.shown
  /\ form' = ClearedForm
  /\ currentImageFile' = FALSE
  /\ consumed' = TRUE
  /\ UNCHANGED <<scanRest, fieldConfidences, mergeCall, pureCall, store, nextId, save>>

\* index.get(billNo) of StorageModule.findByBillNo: the record of the least
\* key with the bill number.  Its read-only transaction is ordered before
\* every read-write transaction created later, so the call reads the store
\* as it is when findByBillNo is called
findByBillNo(billNo) ==
  IF \E r \in store : r.billNo = billNo
  THEN CHOOSE r \in store :
         r.billNo = billNo /\ \A q \in store : q.billNo = billNo => r.id <= q.id
  ELSE NoRecord

EndSave(k, how) == [save EXCEPT ![k].pc = "end", ![k].outcome = how]

\* DataModule.saveBill up to "await ValidationModule.checkDuplicateBillNo";
\* othersValid: date, customer and total of the form pass validateBillData
SaveBill(k, othersValid) ==
  /\ save[k].pc = "idle"
  /\ \A j \in Saves : j < k => save[j].pc # "idle"
  /\ IF othersValid /\ trim(form.billNo) # <<>>
     THEN save' = [save EXCEPT ![k] =
                     [@ EXCEPT !.pc = "checkDuplicate",
                               !.billNo = trim(form.billNo),
                               !.found = findByBillNo(trim(form.billNo)),
                               !.afterUse = consumed]]
     ELSE save' = [save EXCEPT ![k] =
                     [@ EXCEPT !.pc = "end", !.outcome = "invalid",
                               !.afterUse = consumed]]
  /\ UNCHANGED <<currentImageFile, scanRest, fieldConfidences, mergeCall, pureCall,
                 store, nextId, form, consumed>>

\* checkDuplicateBillNo resolves: the duplicate toast, the confirm of the
\* validation warnings, the confirm of the low-confidence fields, then
\* StorageModule.saveBill up to "await this.findByBillNo"
DuplicateChecked(k, warningsDeclined, reviewDeclined) ==
  /\ save[k].pc = "checkDuplicate"
  /\ IF save[k].found # NoRecord
     THEN save' = EndSave(k, "duplicate")
     ELSE IF warningsDeclined
     THEN save' = EndSave(k, "declined")
     ELSE IF getOverallConfidence(fieldConfidences).needsReview /\ reviewDeclined
     THEN save' = [save EXCEPT ![k] =
                     [@ EXCEPT !.pc = "end", !.outcome = "declined",
                               !.prompted = TRUE]]
     ELSE save' = [save EXCEPT ![k] =
                     [@ EXCEPT !.pc = "storageFind",
                               !.found = findByBillNo(save[k].billNo),
                               !.prompted =
                                  getOverallConfidence(fieldConfidences).needsReview]]
  /\ UNCHANGED <<currentImageFile, scanRest, fieldConfidences, mergeCall, pureCall,
                 store, nextId, form, consumed>>

\* findByBillNo of StorageModule.saveBill resolves: the throw of 'Bill
\* number already exists' (billData of DataModule.saveBill has no id), caught
\* by DataModule.saveBill, or store.put(record) with a generated key
StorageFound(k) ==
  /\ save[k].pc = "storageFind"
  /\ IF save[k].found # NoRecord
     THEN /\ save' = EndSave(k, "exists")
          /\ UNCHANGED <<store, nextId>>
     ELSE /\ store' = store \cup {[id |-> nextId, billNo |-> save[k].billNo]}
          /\ nextId' = nextId + 1
          /\ save' = [save EXCEPT ![k].pc = "put"]
  /\ UNCHANGED <<currentImageFile, scanRest, fieldConfidences, mergeCall, pureCall,
                 form, consumed>>

\* the put request succeeds: the toast and UIModule.clearForm()
PutDone(k) ==
  /\ save[k].pc = "put"
  /\ save' = EndSave(k, "saved")
  /\ form' = ClearedForm
  /\ currentImageFile' = FALSE
  /\ consumed' = TRUE
  /\ UNCHANGED <<scanRest, fieldConfidences, mergeCall, pureCall, store, nextId>>

NextSave ==
  \/ \E q \in {"good", "poor"} : handleImageSelect(q)
  \/ \E o \in ScanOutcomes : ScanShown(o)
  \/ \E b \in BillNos : TypeBillNo(b)
  \/ clearForm
  \/ \E k \in Saves, othersValid \in BOOLEAN : SaveBill(k, othersValid)
  \/ \E k \in Saves, w \in BOOLEAN, r \in BOOLEAN : DuplicateChecked(k, w, r)
  \/ \E k \in Saves : StorageFound(k)
  \/ \E k \in Saves : PutDone(k)

SpecSave == Init /\ [][NextSave]_vars

\* C26: once the result of a scan was consumed (the bill saved or the form
\* cleared) the aggregator holds no entry and its summary needs no review,
\* and a save begun after that raises no low-confidence prompt
C26_ConsumedScanLeavesNoEntry ==
  /\ consumed
       => /\ \A f \in Fields : ~fieldConfidences[f].has
          /\ ~getOverallConfidence(fieldConfidences).needsReview
  /\ \A k \in Saves : save[k].afterUse => ~save[k].prompted

\* C29: the store never holds two records with the same bill number and
\* different ids
C29_BillNumbersAreUnique ==
  \A r \in store, q \in store : r.billNo = q.billNo => r.id = q.id

\* C27: for an image whose verdict is 'poor' the scan goes on to OCR if and
\* only if 'Continue Anyway' was chosen for that image: a request made
\* while the warning is displayed and unacknowledged starts no OCR, and a
\* request made after 'Continue Anyway' starts OCR
C27_PoorImageNeedsContinueAnyway ==
  [][\A s \in Scans :
       (/\ pc[s] = "quality"
        /\ pc'[s] # "quality"
        /\ fileQuality[s] = "poor"
        /\ imageQuality = "poor")
         => (pc'[s] = "create" <=> acknowledged)]_vars

\* C28: isScanning is true whenever a scan coroutine is running or a worker
\* is live, and false whenever no scan is running
C28_IsScanningTracksTheScan ==
  /\ ((\E s \in Scans : InFlight(s)) \/ (\E w \in Workers : worker[w] = "live"))
       => isScanning
  /\ (\A s \in Scans : ~InFlight(s)) => ~isScanning

\* C30: a report whose text-size check is adequate has an adequate and
\* recommended resolution, the text-size check is adequate exactly when the
\* estimated DPI is at least 150 (width >= 1000 never decides), and issues
\* with 'low resolution' also have 'text too small'
C30_TextSizeDominatesResolution ==
  ret.made =>
    /\ ret.value.textSize.adequate
         => ret.value.resolution.adequate /\ ret.value.resolution.recommended
    /\ ret.value.textSize.adequate
         <=> ~RatLess(ret.value.textSize.estimatedDPI, Rat(150, 1))
    /\ "low resolution" \in Range(ret.value.issues)
         => "text too small" \in Range(ret.value.issues)

\* C30 witness: the smallest image whose text size is adequate
C30_SmallestAdequateTextSize ==
  /\ ret.made
  /\ arg.value.width = 1241
  /\ arg.value.height = 1754
  /\ ret.value.textSize.adequate
  /\ ret.value.resolution.recommended
====
